---- MODULE Spec2Model ----
(***************************************************************************)
(* Model of the RTDS connection manager, src/src/rtds/connection.rs:       *)
(* the Supervisor (connection_loop), the Multiplexer (handle_connection),  *)
(* the Heartbeat Monitor (heartbeat_loop) and the facade operations        *)
(* send / state / subscribe.                                               *)
(*                                                                         *)
(* Tasks run on a multi-threaded runtime (the examples use #[tokio::main]) *)
(* and send() is a synchronous call from any thread, so the steps of       *)
(* different tasks interleave between any two statements that touch a      *)
(* shared channel, not only at .await points.  A task that is aborted is   *)
(* cancelled at its next .await; until then it keeps running.              *)
(*                                                                         *)
(* Time is a discrete clock `now`.  Timers (interval tick, timeout, sleep) *)
(* fire punctually: the clock does not pass the deadline of a task that    *)
(* waits on it.  Statements between two awaits may be delayed.             *)
(***************************************************************************)
EXTENDS Integers, Sequences, FiniteSets, TLC

\* ------------------------------------------------------------------ bounds
MaxTries == 3       \* connect attempts explored
MaxTime == 4        \* last clock value explored
MaxSends == 1       \* send() calls explored
MaxLimit == 2       \* largest max_attempts explored
MaxConns == 2       \* successive connections whose tasks are explored
MaxTaskTime == 1    \* last clock value explored with the tasks
MaxMsgs == 5        \* inbound messages decoded
MaxPerFrame == 2    \* messages one inbound frame decodes to
MaxSubs == 2        \* subscribe() calls explored
\* Capacity of the broadcast channel, scaled down from BROADCAST_CAPACITY = 1024
\* so that a subscriber can fall behind within MaxMsgs messages.
Capacity == 2
MaxReads == 3       \* reads a caller makes through its state_receiver() handle
MaxCalls == 2       \* bridge client calls explored
MaxOut == 3         \* send() calls explored where the order of requests matters
MaxFrames == 3      \* inbound frames explored where each frame is observed
MaxPongs == 2       \* PONG frames explored where each ping and PONG is observed

\* ------------------------------------------------------------------ config
\* config.heartbeat_interval and config.heartbeat_timeout, in clock units.
HeartbeatInterval == 2
HeartbeatTimeout == 1
\* config.reconnect: initial_delay, multiplier, max_delay, in clock units.
InitialDelay == 1
Multiplier == 2
MaxDelay == 2
\* max_attempts: None
NoLimit == -1

Conns == 1..MaxTries
Subs == 1..MaxSubs

\* ConnectionState
Disconnected == [tag |-> "Disconnected"]
Connecting == [tag |-> "Connecting"]
Connected(t) == [tag |-> "Connected", since |-> t]
Reconnecting(a) == [tag |-> "Reconnecting", attempt |-> a]

is_connected(s) == s.tag = "Connected"

VARIABLES
    max_attempts,   \* config.reconnect.max_attempts (NoLimit: None)
    now,            \* the clock (Instant::now())
    mgrAlive,       \* some ConnectionManager handle still exists
    state,          \* value held by the state watch channel
    published,      \* history: values the Supervisor sent on state_tx
    supPc,          \* Supervisor's position in connection_loop
    supRx,          \* the iteration's state_rx is still owned by the Supervisor
    attempt,        \* connection_loop's attempt counter
    backoffCur,     \* backoff.current_interval
    sleepUntil,     \* deadline of the Supervisor's sleep
    sleepBase,      \* history: delay (jitter aside) of the last next_backoff
    waitsSinceOk,   \* history: next_backoff calls since the last connect success
    nTry,           \* history: connect attempts made
    nConn,          \* history: connections established
    senderRxOpen,   \* sender_rx has not been dropped
    sendQ,          \* outbound mpsc queue (request ids)
    sendRes,        \* history: [res, ctx] of each send() call, its result and
                    \*   what the Supervisor was doing when it was made
    muxPc,          \* per connection: position of handle_connection
    muxExit,        \* history: the path by which handle_connection returned
    streamEnded,    \* the live connection's read.next() has returned None
    pingQ,          \* per connection: ping requests queued on ping_tx
    pong,           \* per connection: the pong watch channel, [val, changed, cls]:
                    \*   its value, whether pong_rx has not seen it yet, and
                    \*   (history) when the last PONG arrived relative to the
                    \*   monitor's tick: "pre" before the mark, "mid" between the
                    \*   mark and the ping, "post" after the ping
    hb,             \* per connection: the heartbeat task, [pc, aborted, nextTick,
                    \*   pingSent, waitUntil, born]: its position in heartbeat_loop,
                    \*   whether heartbeat_handle.abort() was called, the deadline
                    \*   of ping_interval's next tick, ping_sent, the deadline of
                    \*   the timeout on pong_rx.changed(), and (history) when
                    \*   ping_interval was created
    hbLog,          \* history, [on, pings, pongs], kept only where on is set: per
                    \*   connection the ping_sent of each ping request its monitor
                    \*   dispatched, and of each PONG frame read on it [ts, ping,
                    \*   cls]: the timestamp sent on pong_tx, the ping request
                    \*   (0: none) that was the monitor's latest when the frame
                    \*   was read, and when it was read relative to the tick
    wireReq,        \* history: request frames written, [conn, req]
    pingsWritten,   \* history, per connection: PING frames written
    muxPending,     \* messages of the current frame not yet broadcast
    nMsg,           \* history: messages decoded so far (the next message's id)
    buffer,         \* broadcast channel: the ring of slots
    tail,           \* broadcast channel: position of the next send
    rxNext,         \* per subscriber: position of its next read
    rxSubAt,        \* history, per subscriber: broadcasts made before it subscribed
    rxGot,          \* history, per subscriber: what its reads returned
    sentLog,        \* history: the messages handed to broadcast_tx.send, in order
    inLog,          \* history, [on, frames]: the kinds of the inbound frames the
                    \*   Multiplexer has taken, kept only where on is set (the
                    \*   specification that observes each frame)
    obs,            \* a caller's handle from state_receiver(), [pc, seen, at]:
                    \*   the caller's position in its wait-then-read loop, the
                    \*   version of the state channel the handle has seen, and
                    \*   (history) the version when the handle was created
    obsGot,         \* history: what that caller read, [v, idx]: the value and
                    \*   how many values had been published when it was read
    snap,           \* history: what the last state() call returned
    brPc,           \* bridge client: position of the call in progress
    brCall,         \* bridge client: the call in progress, [op, status, decodable]
    brHits,         \* history: requests the server received for that call
    brLog           \* history: every finished call, [op, status, hits, result]

supVars == <<state, published, supPc, supRx, attempt, backoffCur, sleepUntil,
             sleepBase, waitsSinceOk, nTry, nConn, senderRxOpen>>
sendVars == <<sendQ, sendRes>>
muxVars == <<muxPc, muxExit, streamEnded, pingQ, wireReq, pingsWritten>>
hbVars == <<hb, pong, hbLog>>
envVars == <<max_attempts, mgrAlive>>
fanVars == <<muxPending, nMsg, buffer, tail, rxNext, rxSubAt, rxGot, sentLog, inLog>>
obsVars == <<obs, obsGot, snap>>
bridgeVars == <<brPc, brCall, brHits, brLog>>
vars == <<envVars, obsVars, bridgeVars, now, supVars, sendVars, muxVars, hbVars, fanVars>>

\* ------------------------------------------------------------ watch channel
\* A heartbeat task that has been spawned and not yet dropped owns a state_rx.
HbHoldsRx(c) == hb[c].pc \notin {"none", "done", "cancelled"}

\* watch::Sender::send fails, leaving the value alone, when no receiver exists.
HasStateReceiver ==
    mgrAlive \/ supRx \/ obs.pc # "none" \/ \E c \in Conns : HbHoldsRx(c)

WatchSend(v) == IF HasStateReceiver THEN v ELSE state

Publish(v) ==
    /\ state' = WatchSend(v)
    /\ published' = Append(published, v)

\* ------------------------------------------------------------------ backoff
Min(a, b) == IF a < b THEN a ELSE b

\* ExponentialBackoff::reset
BackoffReset == InitialDelay

\* ExponentialBackoff::next_backoff: the interval returned (jitter aside) ...
BackoffDelay(cur) == cur

\* ... and the interval kept for the next call. A policy without the cap would
\* keep multiplying.
BackoffIncrementUncapped(cur) == cur * Multiplier

BackoffIncrement(cur) == Min(cur * Multiplier, MaxDelay)

\* ---------------------------------------------------------------- Supervisor
\* attempt.saturating_add(1): the counter is a u32 and saturates at 2^32 - 1,
\* which no run of at most MaxTries attempts comes near.
saturating_add(a) == a + 1

\* The backoff state after a successful connect. A supervisor that forgot the
\* reset would keep the escalated interval.
BackoffOnConnectNoReset(cur) == cur

BackoffOnConnect(cur) == BackoffReset

\* The check made after either outcome. An off-by-one check would allow one
\* attempt too many; max_attempts.unwrap_or(0) would stop where no limit is set.
ShouldStopOffByOne(max, a) == max # NoLimit /\ a > max

ShouldStopUnwrapOrZero(max, a) == a >= (IF max = NoLimit THEN 0 ELSE max)

ShouldStop(max, a) == max # NoLimit /\ a >= max

\* loop { let state_rx = state_tx.subscribe(); state_tx.send(Connecting); ...
SupLoopTop ==
    /\ supPc = "start"
    /\ nTry < MaxTries
    /\ supRx' = TRUE
    /\ state' = Connecting          \* the receiver just created makes the send succeed
    /\ published' = Append(published, Connecting)
    /\ nTry' = nTry + 1
    /\ supPc' = "connecting"
    /\ UNCHANGED <<envVars, obsVars, bridgeVars, now, attempt, backoffCur, sleepUntil, sleepBase,
                   waitsSinceOk, nConn, senderRxOpen, sendVars, muxVars, hbVars, fanVars>>

\* connect_async(..).await = Err(e): attempt = attempt.saturating_add(1)
SupConnectFail ==
    /\ supPc = "connecting"
    /\ attempt' = saturating_add(attempt)
    /\ supPc' = "check"
    /\ UNCHANGED <<envVars, obsVars, bridgeVars, now, state, published, supRx, backoffCur, sleepUntil,
                   sleepBase, waitsSinceOk, nTry, nConn, senderRxOpen, sendVars,
                   muxVars, hbVars, fanVars>>

\* attempt = 0 in the Ok arm. Without it the counter would count every failure
\* since the start.
AttemptOnConnectKept(a) == a

AttemptOnConnect(a) == 0

\* connect_async(..).await = Ok: attempt = 0; backoff.reset(); send(Connected)
SupConnectOk ==
    /\ supPc = "connecting"
    /\ attempt' = AttemptOnConnect(attempt)
    /\ backoffCur' = BackoffOnConnect(backoffCur)
    /\ waitsSinceOk' = 0
    /\ Publish(Connected(now))
    /\ nConn' = nConn + 1
    /\ supPc' = "spawn"
    /\ UNCHANGED <<envVars, obsVars, bridgeVars, now, supRx, sleepUntil, sleepBase, nTry,
                   senderRxOpen, sendVars, muxVars, hbVars, fanVars>>

\* break: the loop is left. A `continue` in its place would start over.
AfterStopContinue == "start"

AfterStop == "closing"

\* if let Some(max) = max_attempts && attempt >= max { send(Disconnected); break }
SupStop ==
    /\ supPc = "check"
    /\ ShouldStop(max_attempts, attempt)
    /\ Publish(Disconnected)
    /\ supPc' = AfterStop
    /\ UNCHANGED <<envVars, obsVars, bridgeVars, now, supRx, attempt, backoffCur, sleepUntil,
                   sleepBase, waitsSinceOk, nTry, nConn, senderRxOpen, sendVars,
                   muxVars, hbVars, fanVars>>

\* connection_loop returns: its locals sender_rx, state_rx, state_tx are dropped.
SupReturn ==
    /\ supPc = "closing"
    /\ senderRxOpen' = FALSE
    /\ sendQ' = <<>>
    /\ supRx' = FALSE
    /\ supPc' = "done"
    /\ UNCHANGED <<envVars, obsVars, bridgeVars, now, state, published, attempt, backoffCur,
                   sleepUntil, sleepBase, waitsSinceOk, nTry, nConn, sendRes,
                   muxVars, hbVars, fanVars>>

\* state_tx.send(Reconnecting { attempt })
SupReconnecting ==
    /\ supPc = "check"
    /\ ~ShouldStop(max_attempts, attempt)
    /\ Publish(Reconnecting(attempt))
    /\ supPc' = "backoff"
    /\ UNCHANGED <<envVars, obsVars, bridgeVars, now, supRx, attempt, backoffCur, sleepUntil,
                   sleepBase, waitsSinceOk, nTry, nConn, senderRxOpen, sendVars,
                   muxVars, hbVars, fanVars>>

\* if let Some(duration) = backoff.next_backoff() { sleep(duration) ...
SupNextBackoff ==
    /\ supPc = "backoff"
    /\ sleepBase' = BackoffDelay(backoffCur)
    /\ sleepUntil' = now + BackoffDelay(backoffCur)
    /\ backoffCur' = BackoffIncrement(backoffCur)
    /\ waitsSinceOk' = waitsSinceOk + 1
    /\ supPc' = "sleeping"
    /\ UNCHANGED <<envVars, obsVars, bridgeVars, now, state, published, supRx, attempt, nTry,
                   nConn, senderRxOpen, sendVars, muxVars, hbVars, fanVars>>

\* if let Some(duration) = backoff.next_backoff() fails to match: the policy
\* has given up (its max_elapsed_time, if the conversion of the reconnect
\* configuration sets one, has passed) and the loop goes on without a sleep.
SupNoBackoff ==
    /\ supPc = "backoff"
    /\ supRx' = FALSE
    /\ supPc' = "start"
    /\ UNCHANGED <<envVars, obsVars, bridgeVars, now, state, published, attempt,
                   backoffCur, sleepUntil, sleepBase, waitsSinceOk, nTry, nConn,
                   senderRxOpen, sendVars, muxVars, hbVars, fanVars>>

\* The end of the loop body leads to its top, where Connecting is published.
\* Were Connecting published once before the loop, an iteration would start
\* at the connect.
AfterWakeAtConnect == "connecting"

AfterWake == "start"

\* sleep(duration).await returns when its deadline has come. A sleep that is
\* created and not awaited would let the loop go on at once.
SleepOverAtOnce(t, until) == TRUE

SleepOver(t, until) == t >= until

\* ... .await }: the sleep is over, the iteration's state_rx goes out of scope.
SupWake ==
    /\ supPc = "sleeping"
    /\ SleepOver(now, sleepUntil)
    /\ sleepUntil' = 0
    /\ supRx' = FALSE
    /\ supPc' = AfterWake
    /\ UNCHANGED <<envVars, obsVars, bridgeVars, now, state, published, attempt, backoffCur,
                   sleepBase, waitsSinceOk, nTry, nConn, senderRxOpen, sendVars,
                   muxVars, hbVars, fanVars>>

\* -------------------------------------------------------------------- facade
\* The Supervisor has published its terminal Disconnected.
Terminal == published # <<>> /\ published[Len(published)] = Disconnected

\* What a send() call meets: the Supervisor finished ("terminal"), a running
\* handle_connection ("live"), none but an earlier one that returned ("between"),
\* or none yet ("before").
SendCtx ==
    IF Terminal THEN "terminal"
    ELSE IF \E c \in Conns : muxPc[c] \in {"select", "bcast"} THEN "live"
    ELSE IF \E c \in Conns : muxPc[c] = "exited" THEN "between"
    ELSE "before"

\* mpsc::UnboundedSender::send succeeds while the receiver exists. Were the
\* receiver owned by handle_connection, it would exist only while one runs.
SendAcceptsOnlyLive(open) == open /\ SendCtx = "live"

SendAccepts(open) == open

\* ConnectionManager::send: sender_tx.send(json).map_err(|_| ConnectionClosed),
\* for the first n calls.
SendUpTo(n) ==
    /\ mgrAlive
    /\ Len(sendRes) < n
    /\ LET id == Len(sendRes) + 1 IN
        IF SendAccepts(senderRxOpen)
        THEN /\ sendQ' = Append(sendQ, id)
             /\ sendRes' = Append(sendRes, [res |-> "ok", ctx |-> SendCtx])
        ELSE /\ sendQ' = sendQ
             /\ sendRes' = Append(sendRes, [res |-> "closed", ctx |-> SendCtx])
    /\ UNCHANGED <<envVars, obsVars, bridgeVars, now, supVars, muxVars, hbVars, fanVars>>

Send == SendUpTo(MaxSends)

\* Every ConnectionManager clone is dropped.
DropManager ==
    /\ mgrAlive
    /\ mgrAlive' = FALSE
    /\ max_attempts' = max_attempts
    /\ UNCHANGED <<obsVars, bridgeVars, now, supVars, sendVars, muxVars, hbVars, fanVars>>

\* ------------------------------------------------------- heartbeat task state
NoHb == [pc |-> "none", aborted |-> FALSE, nextTick |-> 0, pingSent |-> 0,
         waitUntil |-> 0, born |-> 0]

NoPong == [val |-> 0, changed |-> FALSE, cls |-> "none"]

HbOver(h) == h.pc \in {"done", "cancelled"}

\* The task has returned or was dropped: its locals are gone.
Ended(h, pc) == [pc |-> pc, aborted |-> h.aborted, nextTick |-> 0, pingSent |-> 0,
                 waitUntil |-> 0, born |-> 0]

\* JoinHandle::abort: a task parked at an .await is cancelled without running
\* again; a task that is being polled keeps running until its poll returns
\* Pending. `polled` says which of the two the abort met.
Abort(h, polled) ==
    IF HbOver(h) THEN [h EXCEPT !.aborted = TRUE]
    ELSE IF h.pc \in {"spawned", "tick", "wait"} /\ ~polled
         THEN Ended([h EXCEPT !.aborted = TRUE], "cancelled")
    ELSE [h EXCEPT !.aborted = TRUE]

\* The monitor moves on; when it is over its pong_rx is dropped with it (the
\* history of when the last PONG arrived stays).
HbStep(c, h) ==
    /\ hb' = [hb EXCEPT ![c] = h]
    /\ pong' = [pong EXCEPT ![c] = IF HbOver(h) THEN [NoPong EXCEPT !.cls = pong[c].cls] ELSE @]

\* ---------------------------------------------------------------- Multiplexer
\* handle_connection of connection c is running.
MuxLive(c) == muxPc[c] \in {"select", "bcast"}

\* Self::handle_connection(..).await: the Supervisor runs the Multiplexer itself
\* and goes on only when it returns. Handing the connection to a task of its
\* own would let the loop go on at once.
AfterSpawnDetached == "check"

AfterSpawn == "connected"

\* handle_connection(ws_stream, ..): split, pong and ping channels, spawn.
SupSpawn ==
    /\ supPc = "spawn"
    /\ muxPc' = [muxPc EXCEPT ![nConn] = "select"]
    /\ pong' = [pong EXCEPT ![nConn] = [val |-> now, changed |-> FALSE, cls |-> "none"]]
    /\ hb' = [hb EXCEPT ![nConn] = [NoHb EXCEPT !.pc = "spawned"]]
    /\ supRx' = FALSE                 \* state_rx moves into the heartbeat task
    /\ supPc' = AfterSpawn
    /\ UNCHANGED <<envVars, obsVars, bridgeVars, now, state, published, attempt, backoffCur, sleepUntil,
                   sleepBase, waitsSinceOk, nTry, nConn, senderRxOpen, sendVars,
                   muxExit, streamEnded, pingQ, wireReq, pingsWritten, hbLog, fanVars>>

\* The exit paths on which heartbeat_handle.abort() is called: all of them.
ExitAbortsOnlyInArms(path) == path \in {"close", "read_error"}

\* Dropping heartbeat_handle without abort() would detach the task.
ExitAbortsNever(path) == FALSE

ExitAborts(path) == TRUE

\* if let Err(e) = Self::handle_connection(..).await { trace }: whatever is
\* returned, the Supervisor goes on to its check. Propagating the error with ?
\* would end the Supervisor on a close frame or a read error.
AfterReturnPropagates(path) ==
    IF path \in {"close", "read_error"} THEN "done" ELSE "check"

AfterReturn(path) == "check"

\* The Err of handle_connection is traced and the counter left alone. Counting
\* it as a failure would charge every ended connection to the limit.
AttemptOnReturnCounted(a) == a + 1

AttemptOnReturn(a) == a

\* The value handle_connection returns on each exit path: the two arms that
\* return from inside the loop give Err, the paths that break out of the loop
\* reach the trailing Ok(()).
HandleConnectionResult(path) ==
    CASE path = "close" -> "Err(ConnectionClosed)"
      [] path = "read_error" -> "Err(Connection)"
      [] path \in {"write_failed", "all_closed"} -> "Ok"
      [] OTHER -> "running"

\* Every return of handle_connection: heartbeat_handle.abort(), then the locals
\* (ping_rx, pong_tx, the stream halves) are dropped and the Supervisor goes on.
MuxReturn(c, path, polled) ==
    /\ muxPc' = [muxPc EXCEPT ![c] = "exited"]
    /\ muxExit' = [muxExit EXCEPT ![c] = path]
    /\ HbStep(c, IF ExitAborts(path) THEN Abort(hb[c], polled) ELSE hb[c])
    /\ pingQ' = [pingQ EXCEPT ![c] = 0]
    /\ streamEnded' = FALSE
    /\ supPc' = AfterReturn(path)
    /\ attempt' = AttemptOnReturn(attempt)
    /\ UNCHANGED <<envVars, obsVars, bridgeVars, now, state, published, supRx, backoffCur,
                   sleepUntil, sleepBase, waitsSinceOk, nTry, nConn, senderRxOpen,
                   sendRes, hbLog, fanVars>>

\* When a PONG frame read now arrives relative to the monitor's tick: before
\* the mark, between the mark and the ping, or after the ping.
PongClass(c) ==
    IF hb[c].pc = "ping" THEN "mid"
    ELSE IF hb[c].pc \in {"wait", "got"} THEN "post"
    ELSE "pre"

\* The PONG frame read on connection c and stamped t is added to the history
\* where it is kept, with the ping request that was the monitor's latest.
LoggedPong(l, c, t) ==
    IF l.on
    THEN [l EXCEPT !.pongs[c] =
              Append(@, [ts |-> t, ping |-> Len(l.pings[c]), cls |-> PongClass(c)])]
    ELSE l

\* The inbound frame is added to the history where it is kept.
Logged(l, kind) == IF l.on THEN [l EXCEPT !.frames = Append(@, kind)] ELSE l

\* The arm a text frame takes: Text(text) if text == "PONG" comes before the
\* arm of the other texts. Without the guarded arm every text would be decoded.
TextArmDecodesAll(text) == "decode"

TextArm(text) == IF text = "PONG" THEN "pong" ELSE "decode"

\* Ok(Message::Text(text)) if text == "PONG" => pong_tx.send(Instant::now()),
\* which fails, changing nothing, once pong_rx is dropped.
MuxPong(c) ==
    /\ muxPc[c] = "select" /\ ~streamEnded
    /\ TextArm("PONG") = "pong"
    /\ inLog' = Logged(inLog, "pong")
    /\ hbLog' = LoggedPong(hbLog, c, now)
    /\ pong' = [pong EXCEPT ![c] =
                    IF HbHoldsRx(c)
                    THEN [val |-> now, changed |-> TRUE, cls |-> PongClass(c)]
                    ELSE @]
    /\ UNCHANGED <<envVars, obsVars, bridgeVars, now, supVars, sendVars, muxVars, hb,
                   muxPending, nMsg, buffer, tail, rxNext, rxSubAt, rxGot, sentLog>>

\* Ok(Message::Text(text)) => parse_messages(..) = Ok(messages), k of them
MuxData(c, k) ==
    /\ muxPc[c] = "select" /\ ~streamEnded
    /\ nMsg + k <= MaxMsgs
    /\ muxPending' = k
    /\ inLog' = Logged(inLog, "data")
    /\ muxPc' = [muxPc EXCEPT ![c] = IF k = 0 THEN "select" ELSE "bcast"]
    /\ UNCHANGED <<envVars, obsVars, bridgeVars, now, supVars, sendVars, muxExit, streamEnded, pingQ,
                   wireReq, pingsWritten, hbVars, nMsg, buffer, tail, rxNext,
                   rxSubAt, rxGot, sentLog>>

\* Err(e) of parse_messages is traced and the select loop goes on. Passing the
\* error on with ? would leave handle_connection.
AfterDecodeErrorReturns == "exited"

AfterDecodeError == "select"

\* parse_messages(..) = Err(e): traced, nothing else
MuxUndecodable(c) ==
    /\ muxPc[c] = "select" /\ ~streamEnded
    /\ inLog' = Logged(inLog, "undecodable")
    /\ muxPc' = [muxPc EXCEPT ![c] = AfterDecodeError]
    /\ UNCHANGED <<envVars, obsVars, bridgeVars, now, supVars, sendVars, muxExit, streamEnded,
                   pingQ, wireReq, pingsWritten, hbVars,
                   muxPending, nMsg, buffer, tail, rxNext, rxSubAt, rxGot, sentLog>>

\* _ => {}: binary frames and transport-level pings and pongs
MuxIgnored(c) ==
    /\ muxPc[c] = "select" /\ ~streamEnded
    /\ inLog' = Logged(inLog, "ignored")
    /\ UNCHANGED <<envVars, obsVars, bridgeVars, now, supVars, sendVars, muxVars, hbVars,
                   muxPending, nMsg, buffer, tail, rxNext, rxSubAt, rxGot, sentLog>>

\* Ok(Message::Close(_)) => { heartbeat_handle.abort(); return Err(ConnectionClosed) }
MuxClose(c, polled) ==
    /\ muxPc[c] = "select" /\ ~streamEnded
    /\ MuxReturn(c, "close", polled)
    /\ UNCHANGED <<sendQ, wireReq, pingsWritten>>

\* Err(e) => { heartbeat_handle.abort(); return Err(Connection(e)) }
MuxReadErr(c, polled) ==
    /\ muxPc[c] = "select" /\ ~streamEnded
    /\ MuxReturn(c, "read_error", polled)
    /\ UNCHANGED <<sendQ, wireReq, pingsWritten>>

\* read.next() = None: the pattern Some(msg) fails and the arm is disabled.
MuxStreamEnd(c) ==
    /\ muxPc[c] = "select" /\ ~streamEnded
    /\ streamEnded' = TRUE
    /\ UNCHANGED <<envVars, obsVars, bridgeVars, now, supVars, sendVars, muxPc, muxExit, pingQ, wireReq,
                   pingsWritten, hbVars, fanVars>>

\* sender_rx.recv() takes the request off the queue. A receiver that only
\* looked at the head would meet the same request again.
AfterRecvPeeked(q) == q

AfterRecv(q) == Tail(q)

\* Some(text) = sender_rx.recv() => write.send(Text(text)) succeeds
MuxSendOut(c) ==
    /\ muxPc[c] = "select"
    /\ sendQ # <<>>
    /\ sendQ' = AfterRecv(sendQ)
    /\ wireReq' = Append(wireReq, [conn |-> c, req |-> Head(sendQ)])
    /\ UNCHANGED <<envVars, obsVars, bridgeVars, now, supVars, sendRes, muxPc, muxExit, streamEnded, pingQ,
                   pingsWritten, hbVars, fanVars>>

\* Some(text) = sender_rx.recv() => write.send(Text(text)).is_err() => break
MuxSendOutFail(c, polled) ==
    /\ muxPc[c] = "select"
    /\ sendQ # <<>>
    /\ sendQ' = AfterRecv(sendQ)
    /\ MuxReturn(c, "write_failed", polled)
    /\ UNCHANGED <<wireReq, pingsWritten>>

\* Some(()) = ping_rx.recv() => write.send(Text("PING")) succeeds
MuxPing(c) ==
    /\ muxPc[c] = "select"
    /\ pingQ[c] > 0
    /\ pingQ' = [pingQ EXCEPT ![c] = @ - 1]
    /\ pingsWritten' = [pingsWritten EXCEPT ![c] = @ + 1]
    /\ UNCHANGED <<envVars, obsVars, bridgeVars, now, supVars, sendVars, muxPc, muxExit, streamEnded,
                   wireReq, hbVars, fanVars>>

\* Some(()) = ping_rx.recv() => write.send(Text("PING")).is_err() => break
MuxPingFail(c, polled) ==
    /\ muxPc[c] = "select"
    /\ pingQ[c] > 0
    /\ MuxReturn(c, "write_failed", polled)
    /\ UNCHANGED <<sendQ, wireReq, pingsWritten>>

\* select! takes its else branch when the pattern of every arm has failed:
\* read.next(), sender_rx.recv() and ping_rx.recv() have all returned None. An
\* arm `None = ping_rx.recv() => break` would leave as soon as the monitor is
\* over and its ping requests are drained.
PingArmClosedBreaks(c) == ~HbHoldsRx(c) /\ pingQ[c] = 0

AllArmsDisabled(c) ==
    /\ streamEnded
    /\ ~mgrAlive /\ sendQ = <<>>
    /\ ~HbHoldsRx(c) /\ pingQ[c] = 0

\* else => break: the stream has ended, every sender_tx is dropped and the queue
\* drained, the heartbeat task has dropped ping_tx and its queue is drained.
MuxAllClosed(c, polled) ==
    /\ muxPc[c] = "select"
    /\ AllArmsDisabled(c)
    /\ MuxReturn(c, "all_closed", polled)
    /\ UNCHANGED <<sendQ, wireReq, pingsWritten>>

\* broadcast::Sender::send is a synchronous call that never waits for a
\* receiver: it overwrites the oldest slot. A bounded queue whose send waits
\* for room would hold the Multiplexer while some receiver has a full backlog.
SendReadyWhenRoom == \A s \in Subs : rxNext[s] >= 0 => tail - rxNext[s] < Capacity

SendReady == TRUE

\* for message in messages { _ = broadcast_tx.send(message) }: one message.
\* broadcast::Sender::send stores nothing when no receiver exists.
MuxBroadcast(c) ==
    /\ muxPc[c] = "bcast"
    /\ SendReady
    /\ LET id == nMsg + 1
           rx_cnt == Cardinality({s \in Subs : rxNext[s] >= 0}) IN
        /\ nMsg' = id
        /\ sentLog' = Append(sentLog, id)
        /\ IF rx_cnt > 0
           THEN /\ buffer' = [buffer EXCEPT ![tail % Capacity] = [pos |-> tail, val |-> id]]
                /\ tail' = tail + 1
           ELSE UNCHANGED <<buffer, tail>>
    /\ muxPending' = muxPending - 1
    /\ muxPc' = [muxPc EXCEPT ![c] = IF muxPending = 1 THEN "select" ELSE "bcast"]
    /\ UNCHANGED <<envVars, obsVars, bridgeVars, now, supVars, sendVars, muxExit, streamEnded, pingQ,
                   wireReq, pingsWritten, hbVars, rxNext, rxSubAt, rxGot, inLog>>

\* ------------------------------------------------------------------- fan-out
\* ConnectionManager::subscribe: broadcast_tx.subscribe(), a receiver at the tail.
\* A receiver placed one slot earlier would replay the last message.
SubscribeAtPrevious(t) == IF t > 0 THEN t - 1 ELSE t

SubscribeAt(t) == t

Subscribe(s) ==
    /\ mgrAlive
    /\ rxNext[s] = -1
    /\ \A r \in Subs : r < s => rxNext[r] >= 0
    /\ rxNext' = [rxNext EXCEPT ![s] = SubscribeAt(tail)]
    /\ rxSubAt' = [rxSubAt EXCEPT ![s] = Len(sentLog)]
    /\ UNCHANGED <<envVars, obsVars, bridgeVars, now, supVars, sendVars, muxVars, hbVars, muxPending, nMsg,
                   buffer, tail, rxGot, sentLog, inLog>>

\* The position a receiver that lagged resumes at: the oldest slot the ring
\* still holds. Resuming at the tail would lose the retained messages too.
ResumeAtTail(t) == t

ResumeAt(t) == t - Capacity

\* broadcast::Receiver::recv with something to return: the slot at the
\* receiver's position, or Lagged(missed) when that slot was overwritten.
Recv(s) ==
    /\ rxNext[s] >= 0
    /\ rxNext[s] # tail
    /\ LET slot == buffer[rxNext[s] % Capacity] IN
        IF slot.pos = rxNext[s]
        THEN /\ rxGot' = [rxGot EXCEPT ![s] = Append(@, [kind |-> "msg", v |-> slot.val])]
             /\ rxNext' = [rxNext EXCEPT ![s] = @ + 1]
        ELSE /\ rxGot' = [rxGot EXCEPT ![s] =
                            Append(@, [kind |-> "lagged", v |-> ResumeAt(tail) - rxNext[s]])]
             /\ rxNext' = [rxNext EXCEPT ![s] = ResumeAt(tail)]
    /\ UNCHANGED <<envVars, obsVars, bridgeVars, now, supVars, sendVars, muxVars, hbVars, muxPending, nMsg,
                   buffer, tail, rxSubAt, sentLog, inLog>>

\* ConnectionManager::state: *state_rx.borrow()
StateSnapshot == state

NoSnap == [tag |-> "none"]

\* A caller calls state().
StateCall ==
    /\ mgrAlive
    /\ snap' = StateSnapshot
    /\ UNCHANGED <<envVars, obs, obsGot, bridgeVars, now, supVars, sendVars, muxVars,
                   hbVars, fanVars>>

\* ----------------------------------------------------------- state_receiver
NoObs == [pc |-> "none", seen |-> 0, at |-> 0]

\* Values sent on state_tx so far. While a handle from state_receiver() exists
\* every send succeeds, so this is also the version of the channel.
StateVersion == Len(published)

\* state_tx.subscribe(): the new receiver has seen the current value. A clone
\* of the manager's own state_rx, which never marks anything seen, would not.
StateReceiverSeenCloned(ver) == 0

StateReceiverSeen(ver) == ver

\* ConnectionManager::state_receiver
StateReceiver ==
    /\ mgrAlive
    /\ obs.pc = "none"
    /\ obs' = [pc |-> "wait", seen |-> StateReceiverSeen(StateVersion),
                at |-> StateVersion]
    /\ UNCHANGED <<envVars, obsGot, snap, bridgeVars, now, supVars, sendVars, muxVars,
                   hbVars, fanVars>>

\* The caller's rx.changed().await returns: a version the handle has not seen
\* exists, and the newest one is marked seen.
ObsChanged ==
    /\ obs.pc = "wait"
    /\ obs.seen < StateVersion
    /\ obs' = [obs EXCEPT !.pc = "read", !.seen = StateVersion]
    /\ UNCHANGED <<envVars, obsGot, snap, bridgeVars, now, supVars, sendVars, muxVars,
                   hbVars, fanVars>>

\* The caller reads the state: *rx.borrow()
ObsRead ==
    /\ obs.pc = "read"
    /\ Len(obsGot) < MaxReads
    /\ obsGot' = Append(obsGot, [v |-> state, idx |-> StateVersion])
    /\ obs' = [obs EXCEPT !.pc = "wait"]
    /\ UNCHANGED <<envVars, snap, bridgeVars, now, supVars, sendVars, muxVars,
                   hbVars, fanVars>>

\* -------------------------------------------------------------- bridge client
\* The REST bridge client: one stateless request/response call at a time.
BridgeOps == {"deposit", "supported_assets"}

\* The statuses the server answers with: OK, CREATED, BAD_REQUEST,
\* INTERNAL_SERVER_ERROR.
Statuses == {200, 201, 400, 500}

NoCall == [op |-> "none", status |-> 0, decodable |-> FALSE]

\* The statuses whose body the client decodes. A client that passed every
\* status below 500 on to the decoder would treat a 400 as an answer.
SuccessStatusBelow500(status) == status < 500

SuccessStatus(status) == status \in 200..299

\* What the call returns: the decoded response, a decode error, or the error
\* for a non-success status.
BridgeResult(status, decodable) ==
    IF ~SuccessStatus(status) THEN "status_error"
    ELSE IF decodable THEN "ok"
    ELSE "decode_error"

BridgeFrame == UNCHANGED <<envVars, obsVars, now, supVars, sendVars, muxVars, hbVars,
                           fanVars>>

\* client.deposit(&request) / client.supported_assets(): the request is issued.
BridgeIssue(op) ==
    /\ brPc = "idle"
    /\ Len(brLog) < MaxCalls
    /\ brCall' = [NoCall EXCEPT !.op = op]
    /\ brHits' = 1
    /\ brPc' = "sent"
    /\ brLog' = brLog
    /\ BridgeFrame

\* The server answers with a status and a body that decodes or does not.
BridgeAnswer(status, decodable) ==
    /\ brPc = "sent"
    /\ brCall' = [brCall EXCEPT !.status = status, !.decodable = decodable]
    /\ brPc' = "answered"
    /\ UNCHANGED <<brHits, brLog>>
    /\ BridgeFrame

\* The call returns to its caller.
BridgeReturn ==
    /\ brPc = "answered"
    /\ brLog' = Append(brLog, [op |-> brCall.op, status |-> brCall.status,
                                hits |-> brHits,
                                result |-> BridgeResult(brCall.status, brCall.decodable)])
    /\ brCall' = NoCall
    /\ brHits' = 0
    /\ brPc' = "idle"
    /\ BridgeFrame

\* --------------------------------------------------------- Heartbeat Monitor
HbFrame ==
    UNCHANGED <<envVars, obsVars, bridgeVars, now, supVars, sendVars, muxVars, hbLog, fanVars>>

\* The task is polled for the first time: interval(heartbeat_interval), whose
\* first tick is due at once (an interval whose first tick came one period
\* after its creation would be interval_at(now + period, period)).
FirstTickAfterPeriod(t) == t + HeartbeatInterval

FirstTick(t) == t

HbStart(c) ==
    /\ hb[c].pc = "spawned"
    /\ HbStep(c, [hb[c] EXCEPT !.pc = "tick", !.nextTick = FirstTick(now),
                               !.born = now])
    /\ HbFrame

\* ping_interval.tick().await: the next tick is one period after this one's deadline.
HbTick(c) ==
    /\ hb[c].pc = "tick"
    /\ now >= hb[c].nextTick
    /\ hb' = [hb EXCEPT ![c].pc = "check", ![c].nextTick = @ + HeartbeatInterval]
    /\ pong' = [pong EXCEPT ![c].cls = IF @ = "none" THEN "none" ELSE "pre"]
    /\ HbFrame

\* if !state_rx.borrow().is_connected() { break }
HbCheck(c) ==
    /\ hb[c].pc = "check"
    /\ HbStep(c, IF is_connected(state) THEN [hb[c] EXCEPT !.pc = "mark"]
                                        ELSE Ended(hb[c], "done"))
    /\ HbFrame

\* drop(pong_rx.borrow_and_update()); without it the flag would stay.
MarkSeenForgotten(changed) == changed

MarkSeen(changed) == FALSE

HbMark(c) ==
    /\ hb[c].pc = "mark"
    /\ hb' = [hb EXCEPT ![c].pc = "ping"]
    /\ pong' = [pong EXCEPT ![c].changed = MarkSeen(@)]
    /\ HbFrame

\* let (ping_tx, mut ping_rx) = mpsc::unbounded_channel() is a local of
\* handle_connection, moved into the task it spawns: the monitor of connection
\* c sends to the queue that only the Multiplexer of c reads. A channel made
\* once in connection_loop would be read by whichever Multiplexer is running.
PingChannelShared(c) == nConn

PingChannel(c) == c

\* The ping request that the monitor of connection c dispatched at t is added
\* to the history where it is kept.
LoggedPing(l, c, t) == IF l.on THEN [l EXCEPT !.pings[c] = Append(@, t)] ELSE l

\* let ping_sent = Instant::now(); if ping_tx.send(()).is_err() { break }
\* then timeout(heartbeat_timeout, pong_rx.changed()) is created.
HbPing(c) ==
    /\ hb[c].pc = "ping"
    /\ IF MuxLive(PingChannel(c))
       THEN /\ pingQ' = [pingQ EXCEPT ![PingChannel(c)] = @ + 1]
            /\ hbLog' = LoggedPing(hbLog, c, now)
            /\ HbStep(c, [hb[c] EXCEPT !.pc = "wait", !.pingSent = now,
                                       !.waitUntil = now + HeartbeatTimeout])
       ELSE /\ pingQ' = pingQ
            /\ hbLog' = hbLog
            /\ HbStep(c, Ended(hb[c], "done"))
    /\ UNCHANGED <<envVars, obsVars, bridgeVars, now, supVars, sendVars, muxPc, muxExit, streamEnded,
                   wireReq, pingsWritten, fanVars>>

\* pong_rx.changed() = Ok(()): an unseen value exists; it is marked seen.
HbPongSeen(c) ==
    /\ hb[c].pc = "wait"
    /\ pong[c].changed
    /\ hb' = [hb EXCEPT ![c].pc = "got"]
    /\ pong' = [pong EXCEPT ![c].changed = FALSE]
    /\ HbFrame

\* if last_pong < ping_sent { break }: a monitor without the comparison would
\* take any notification for an answer.
IsStaleNever(last_pong, ping_sent) == FALSE

IsStale(last_pong, ping_sent) == last_pong < ping_sent

\* Ok(Ok(())) => { let last_pong = *pong_rx.borrow_and_update(); ... }
HbGot(c) ==
    /\ hb[c].pc = "got"
    /\ IF IsStale(pong[c].val, hb[c].pingSent)
       THEN HbStep(c, Ended(hb[c], "done"))
       ELSE /\ hb' = [hb EXCEPT ![c].pc = "tick"]
            /\ pong' = [pong EXCEPT ![c].changed = FALSE]
    /\ HbFrame

\* Ok(Err(_)) => break: pong_tx was dropped and no unseen value is left.
HbPongClosed(c) ==
    /\ hb[c].pc = "wait"
    /\ ~pong[c].changed
    /\ ~MuxLive(c)
    /\ HbStep(c, Ended(hb[c], "done"))
    /\ HbFrame

\* The monitor holds a receiver of the state channel, never its sender: the
\* timeout leaves the state alone. A monitor handed state_tx could declare the
\* connection lost itself.
OnHeartbeatTimeoutDisconnects(s) == Disconnected

OnHeartbeatTimeout(s) == s

\* Err(_) => { warn; break }: the timeout ends the monitor. A monitor that only
\* logged the timeout would go on to its next tick with the ping unanswered.
AfterTimeoutGoesOn(h) == [h EXCEPT !.pc = "tick"]

AfterTimeout(h) == Ended(h, "done")

\* Err(_) => break: heartbeat_timeout elapsed with no unseen value.
HbTimeout(c) ==
    /\ hb[c].pc = "wait"
    /\ ~pong[c].changed
    /\ MuxLive(c)
    /\ now >= hb[c].waitUntil
    /\ HbStep(c, AfterTimeout(hb[c]))
    /\ state' = OnHeartbeatTimeout(state)
    /\ UNCHANGED <<envVars, obsVars, bridgeVars, now, published, supPc, supRx, attempt,
                   backoffCur, sleepUntil, sleepBase, waitsSinceOk, nTry, nConn,
                   senderRxOpen, sendVars, muxVars, hbLog, fanVars>>

\* An aborted task whose poll returns Pending is dropped by the runtime.
HbCancel(c) ==
    /\ hb[c].aborted
    /\ hb[c].pc = "tick"
    /\ now < hb[c].nextTick
    /\ HbStep(c, Ended(hb[c], "cancelled"))
    /\ HbFrame

\* --------------------------------------------------------------------- clock
\* Time passes, but not beyond the deadline of a timer some task waits on.
Tick ==
    /\ now < MaxTime
    /\ supPc = "sleeping" => now < sleepUntil
    /\ \A c \in Conns :
        /\ hb[c].pc = "tick" => now < hb[c].nextTick
        /\ hb[c].pc = "wait" => now < hb[c].waitUntil
    /\ now' = now + 1
    /\ UNCHANGED <<envVars, obsVars, bridgeVars, supVars, sendVars, muxVars, hbVars, fanVars>>

\* ------------------------------------------------------------- specification
Limits == {NoLimit} \cup 0..MaxLimit

\* watch::channel(ConnectionState::Disconnected): the value the state channel
\* holds before anything is sent. A channel created with Connecting would
\* never show Disconnected before the Supervisor ends.
InitialStateConnecting == Connecting

InitialState == Disconnected

\* ConnectionManager::new: the channels are created, the Supervisor is spawned.
InitState ==
    /\ max_attempts \in Limits
    /\ now = 0
    /\ mgrAlive = TRUE
    /\ state = InitialState
    /\ published = <<>>
    /\ supPc = "start"
    /\ supRx = FALSE
    /\ attempt = 0
    /\ backoffCur = InitialDelay
    /\ sleepUntil = 0
    /\ sleepBase = 0
    /\ waitsSinceOk = 0
    /\ nTry = 0
    /\ nConn = 0
    /\ senderRxOpen = TRUE
    /\ sendQ = <<>>
    /\ sendRes = <<>>
    /\ muxPc = [c \in Conns |-> "none"]
    /\ muxExit = [c \in Conns |-> "none"]
    /\ streamEnded = FALSE
    /\ pingQ = [c \in Conns |-> 0]
    /\ pong = [c \in Conns |-> NoPong]
    /\ hb = [c \in Conns |-> NoHb]
    /\ wireReq = <<>>
    /\ pingsWritten = [c \in Conns |-> 0]
    /\ muxPending = 0
    /\ nMsg = 0
    /\ buffer = [i \in 0..(Capacity - 1) |-> [pos |-> -1, val |-> 0]]
    /\ tail = 0
    /\ rxNext = [s \in Subs |-> -1]
    /\ rxSubAt = [s \in Subs |-> 0]
    /\ rxGot = [s \in Subs |-> <<>>]
    /\ sentLog = <<>>
    /\ obs = NoObs
    /\ obsGot = <<>>
    /\ snap = NoSnap
    /\ brPc = "idle"
    /\ brCall = NoCall
    /\ brHits = 0
    /\ brLog = <<>>

NoLog == [on |-> FALSE, frames |-> <<>>]

NoHbLog == [on |-> FALSE, pings |-> [c \in Conns |-> <<>>], pongs |-> [c \in Conns |-> <<>>]]

Init == InitState /\ inLog = NoLog /\ hbLog = NoHbLog

Supervisor ==
    \/ SupLoopTop
    \/ SupConnectFail
    \/ SupConnectOk
    \/ SupSpawn
    \/ SupStop
    \/ SupReturn
    \/ SupReconnecting
    \/ SupNextBackoff
    \/ SupWake

Heartbeat ==
    \E c \in Conns :
        \/ HbStart(c)
        \/ HbTick(c)
        \/ HbCheck(c)
        \/ HbMark(c)
        \/ HbPing(c)
        \/ HbPongSeen(c)
        \/ HbGot(c)
        \/ HbPongClosed(c)
        \/ HbTimeout(c)
        \/ HbCancel(c)

\* The Supervisor and the callers of send(): connects, connection ends, retries
\* and shutdown. The heartbeat task is spawned and aborted but not scheduled (its
\* steps write nothing the Supervisor or send() reads), so abort meets it parked.
Next ==
    \/ Supervisor
    \/ Send
    \/ Tick
    \/ \E c \in Conns :
        \/ MuxSendOut(c)
        \/ MuxClose(c, FALSE)
        \/ MuxReadErr(c, FALSE)
        \/ MuxSendOutFail(c, FALSE)

Spec == Init /\ [][Next]_vars

\* The Supervisor alone against the clock: connects that fail or succeed,
\* connections that the transport ends, limits, backoff and sleeps.
NextSup ==
    \/ Supervisor
    \/ Tick
    \/ \E c \in Conns :
        \/ MuxClose(c, FALSE)
        \/ MuxReadErr(c, FALSE)

SpecSup == Init /\ [][NextSup]_vars

\* The Supervisor against the clock and a caller that calls state() at any
\* moment, as often as it likes, until the manager is dropped.
NextState ==
    \/ NextSup
    \/ StateCall
    \/ DropManager

SpecState == Init /\ [][NextState]_vars

\* No connect fails in the specifications below, and there every positive limit
\* behaves as no limit does.
InitHb == Init /\ max_attempts = NoLimit

\* Successive connections, up to MaxConns, and their tasks: the Supervisor that
\* starts one pair after the other, every step of the Heartbeat Monitor, and a
\* connection ending by a return inside the loop (close frame) or by a break
\* out of it (PING write failure) while its monitor runs.
NextTask ==
    \/ nTry < MaxConns /\ SupLoopTop
    \/ SupConnectOk
    \/ SupSpawn
    \/ SupReconnecting
    \/ SupNextBackoff
    \/ SupWake
    \/ Heartbeat
    \/ now < MaxTaskTime /\ Tick
    \/ \E c \in Conns :
        \/ MuxPong(c)
        \/ MuxPing(c)
        \/ \E polled \in BOOLEAN :
            \/ MuxClose(c, polled)
            \/ MuxPingFail(c, polled)

SpecTask == InitHb /\ [][NextTask]_vars

\* One connection from its start to the return of handle_connection and the
\* end of its monitor: every arm of the Multiplexer but the delivery of decoded
\* messages, every step of the Heartbeat Monitor, send() and the drop of the
\* manager.
NextConn ==
    \/ nTry < 1 /\ SupLoopTop
    \/ SupConnectOk
    \/ SupSpawn
    \/ Heartbeat
    \/ Send
    \/ DropManager
    \/ now < MaxTaskTime /\ Tick
    \/ \E c \in Conns :
        \/ MuxPong(c)
        \/ MuxStreamEnd(c)
        \/ MuxSendOut(c)
        \/ MuxPing(c)
        \/ \E polled \in BOOLEAN :
            \/ MuxClose(c, polled)
            \/ MuxReadErr(c, polled)
            \/ MuxAllClosed(c, polled)
            \/ MuxSendOutFail(c, polled)
            \/ MuxPingFail(c, polled)

SpecConn == InitHb /\ [][NextConn]_vars

\* One connection and its Heartbeat Monitor against the clock.
NextHb ==
    \/ nTry < 1 /\ SupLoopTop
    \/ SupConnectOk
    \/ SupSpawn
    \/ Heartbeat
    \/ Tick
    \/ \E c \in Conns :
        \/ MuxPong(c)
        \/ MuxPing(c)
        \/ MuxUndecodable(c)
        \/ MuxIgnored(c)
        \/ \E polled \in BOOLEAN :
            \/ MuxClose(c, polled)
            \/ MuxPingFail(c, polled)

SpecHb == InitHb /\ [][NextHb]_vars

\* The fan-out on the first connection: data frames, subscribe() and recv().
NextFan ==
    \/ SupLoopTop
    \/ SupConnectOk
    \/ SupSpawn
    \/ \E c \in Conns, k \in 0..MaxPerFrame : MuxData(c, k)
    \/ \E c \in Conns : MuxBroadcast(c)
    \/ \E s \in Subs : Subscribe(s)
    \/ \E s \in Subs : Recv(s)

SpecFan == InitHb /\ [][NextFan]_vars

\* The bridge client's calls.
NextBridge ==
    \/ \E op \in BridgeOps : BridgeIssue(op)
    \/ \E status \in Statuses, decodable \in BOOLEAN : BridgeAnswer(status, decodable)
    \/ BridgeReturn

SpecBridge == InitHb /\ [][NextBridge]_vars

\* The Supervisor over MaxConns connect attempts, each failing or succeeding,
\* and a caller that holds a handle from state_receiver() and loops: wait for a
\* change, read the state.
NextObs ==
    \/ nTry < MaxConns /\ SupLoopTop
    \/ SupConnectFail
    \/ SupConnectOk
    \/ SupSpawn
    \/ SupStop
    \/ SupReturn
    \/ SupReconnecting
    \/ SupNextBackoff
    \/ SupWake
    \/ now < MaxTaskTime /\ Tick
    \/ \E c \in Conns : MuxClose(c, FALSE)
    \/ StateReceiver
    \/ ObsChanged
    \/ ObsRead

SpecObs == Init /\ [][NextObs]_vars

\* With a limit of 0 the first check ends the Supervisor; with none it goes on.
InitCell == Init /\ max_attempts \in {0, NoLimit}

\* Calls made on the facade so far.
FacadeCalls ==
    Len(sendRes) + (IF snap = NoSnap THEN 0 ELSE 1) + (IF obs.pc = "none" THEN 0 ELSE 1)
        + Cardinality({s \in Subs : rxNext[s] >= 0})

\* Everything that runs beside the Supervisor: the facade operations (one call
\* of one of them, a state() call being free to repeat),
\* the arms of the Multiplexer that a frame or a request takes and every step
\* of the Heartbeat Monitor, on one connect attempt, with one inbound message
\* and one subscriber.
NextCell ==
    \/ nTry < 1 /\ SupLoopTop
    \/ SupConnectFail
    \/ SupConnectOk
    \/ SupSpawn
    \/ SupStop
    \/ SupReturn
    \/ SupReconnecting
    \/ SupNextBackoff
    \/ SupWake
    \/ Heartbeat
    \/ now < MaxTaskTime /\ Tick
    \/ FacadeCalls = 0 /\ Send
    \/ (snap = NoSnap => FacadeCalls = 0) /\ StateCall
    \/ FacadeCalls = 0 /\ StateReceiver
    \/ ObsChanged
    \/ FacadeCalls = 0 /\ Subscribe(1)
    \/ \E c \in Conns :
        \/ MuxPong(c)
        \/ nMsg < 1 /\ MuxData(c, 1)
        \/ MuxBroadcast(c)
        \/ MuxUndecodable(c)
        \/ MuxIgnored(c)
        \/ MuxSendOut(c)
        \/ MuxPing(c)
        \/ \E polled \in BOOLEAN : MuxClose(c, polled)
        \/ MuxReadErr(c, FALSE)
        \/ MuxSendOutFail(c, FALSE)
        \/ MuxPingFail(c, FALSE)

SpecCell == InitCell /\ [][NextCell]_vars

\* The Supervisor awaits: the connect, the connection, the sleep.
SupAwaits == supPc \in {"connecting", "connected", "sleeping"}

\* The outcome of connect_async.
SupConnectDone == SupConnectFail \/ SupConnectOk

\* The outcome of backoff.next_backoff().
SupBackoffDone == SupNextBackoff \/ SupNoBackoff

\* The time that passes while the Supervisor awaits.
Elapse == SupAwaits /\ Tick

\* The Supervisor's progress over MaxTries connect attempts: connects that fail
\* or succeed, connections that end, and the retry that follows. Time passes
\* while the Supervisor awaits.
NextLive ==
    \/ SupLoopTop
    \/ SupConnectDone
    \/ SupSpawn
    \/ SupStop
    \/ SupReturn
    \/ SupReconnecting
    \/ SupBackoffDone
    \/ SupWake
    \/ Elapse
    \/ \E c \in Conns :
        \/ MuxClose(c, FALSE)
        \/ MuxReadErr(c, FALSE)

\* The runtime schedules the Supervisor task whenever it can run, connect_async
\* returns, and timers fire. Nothing obliges a connection to end or a caller
\* to call send().
SpecLive ==
    /\ Init /\ [][NextLive]_vars
    /\ WF_vars(SupLoopTop)
    /\ WF_vars(SupConnectDone)
    /\ WF_vars(SupSpawn)
    /\ WF_vars(SupStop)
    /\ WF_vars(SupReturn)
    /\ WF_vars(SupReconnecting)
    /\ WF_vars(SupBackoffDone)
    /\ WF_vars(SupWake)
    /\ WF_vars(Elapse)

\* The attempts and the time explored by NextRetry.
FirstTry == nTry < MaxConns /\ SupLoopTop

ElapseTask == now < MaxTaskTime /\ Elapse

\* A connection ended by the transport and what the Supervisor does next, over
\* MaxConns connect attempts: a close frame, a read error, or the failed write
\* of a request (one send() call is made).
NextRetry ==
    \/ FirstTry
    \/ SupConnectDone
    \/ SupSpawn
    \/ SupStop
    \/ SupReturn
    \/ SupReconnecting
    \/ SupBackoffDone
    \/ SupWake
    \/ ElapseTask
    \/ sendRes = <<>> /\ Send
    \/ \E c \in Conns :
        \/ MuxClose(c, FALSE)
        \/ MuxReadErr(c, FALSE)
        \/ MuxSendOutFail(c, FALSE)

SpecRetry ==
    /\ Init /\ [][NextRetry]_vars
    /\ WF_vars(FirstTry)
    /\ WF_vars(SupConnectDone)
    /\ WF_vars(SupSpawn)
    /\ WF_vars(SupStop)
    /\ WF_vars(SupReturn)
    /\ WF_vars(SupReconnecting)
    /\ WF_vars(SupBackoffDone)
    /\ WF_vars(SupWake)
    /\ WF_vars(ElapseTask)

\* The outbound path over MaxConns connections: up to MaxOut send() calls made
\* at any moment, requests written or failing to be written, connections that
\* end and the retries that follow.
NextOut ==
    \/ nTry < MaxConns /\ SupLoopTop
    \/ SupConnectOk
    \/ SupSpawn
    \/ SupReconnecting
    \/ SupNextBackoff
    \/ SupWake
    \/ now < MaxTaskTime /\ Tick
    \/ SendUpTo(MaxOut)
    \/ \E c \in Conns :
        \/ MuxSendOut(c)
        \/ MuxClose(c, FALSE)
        \/ MuxSendOutFail(c, FALSE)

SpecOut == InitHb /\ [][NextOut]_vars

\* The inbound frames of the first connection are kept in the history.
InitIn ==
    /\ InitState /\ max_attempts = NoLimit
    /\ inLog = [NoLog EXCEPT !.on = TRUE] /\ hbLog = NoHbLog

\* Another inbound frame is explored.
MoreFrames == Len(inLog.frames) < MaxFrames

\* The inbound path of one connection, frame by frame: up to MaxFrames frames
\* of any kind in any order, text frames decoding to no message or to one, the
\* broadcast of it, and every step of the Heartbeat Monitor beside them.
NextIn ==
    \/ nTry < 1 /\ SupLoopTop
    \/ SupConnectOk
    \/ SupSpawn
    \/ Heartbeat
    \/ now < MaxTaskTime /\ Tick
    \/ \E c \in Conns :
        \/ MoreFrames /\ MuxPong(c)
        \/ MoreFrames /\ (\E k \in 0..1 : MuxData(c, k))
        \/ MoreFrames /\ MuxUndecodable(c)
        \/ MoreFrames /\ MuxIgnored(c)
        \/ MuxBroadcast(c)
        \/ MuxPing(c)
        \/ \E polled \in BOOLEAN : MuxClose(c, polled)

SpecIn == InitIn /\ [][NextIn]_vars

\* The ping requests and PONG frames of every connection are kept in the history.
InitPing ==
    /\ InitState /\ max_attempts = NoLimit
    /\ inLog = NoLog /\ hbLog = [NoHbLog EXCEPT !.on = TRUE]

\* Another PONG frame is explored on connection c.
MorePongs(c) == Len(hbLog.pongs[c]) < MaxPongs

\* The heartbeat of one connection while it lasts, ping by ping: every step of
\* the Heartbeat Monitor against the clock, PONG frames read at any moment and
\* PING frames written whenever the Multiplexer gets to them.
NextPing ==
    \/ nTry < 1 /\ SupLoopTop
    \/ SupConnectOk
    \/ SupSpawn
    \/ Tick
    \/ \E c \in Conns :
        \/ HbStart(c)
        \/ HbTick(c)
        \/ HbCheck(c)
        \/ HbMark(c)
        \/ HbPing(c)
        \/ HbPongSeen(c)
        \/ HbGot(c)
        \/ HbTimeout(c)
        \/ MorePongs(c) /\ MuxPong(c)
        \/ MuxPing(c)

SpecPing == InitPing /\ [][NextPing]_vars

\* No PONG frame has been read on connection c yet.
FirstPong(c) == hbLog.pongs[c] = <<>>

\* Two successive connections with their pings and PONG frames observed, one
\* PONG frame on each: the first connection ending by a close frame or a PING
\* write failure while its monitor is parked or in the middle of a tick, and
\* the second starting beside a monitor that has not ended yet.
NextPriv ==
    \/ nTry < 2 /\ SupLoopTop
    \/ SupConnectOk
    \/ SupSpawn
    \/ SupReconnecting
    \/ SupNextBackoff
    \/ SupWake
    \/ Heartbeat
    \/ now < MaxTaskTime /\ Tick
    \/ \E c \in Conns :
        \/ FirstPong(c) /\ MuxPong(c)
        \/ MuxPing(c)
        \/ \E polled \in BOOLEAN :
            \/ MuxClose(c, polled)
            \/ MuxPingFail(c, polled)

SpecPriv == InitPing /\ [][NextPriv]_vars

\* ==================================================================== claims
IsPrefix(s, t) == Len(s) <= Len(t) /\ \A i \in 1..Len(s) : s[i] = t[i]

\* Connecting, Reconnecting(1), Connecting, ..., Reconnecting(n-1), Connecting,
\* Disconnected.
FailureRun(n) ==
    [i \in 1..(2 * n) |-> IF i = 2 * n THEN Disconnected
                          ELSE IF i % 2 = 1 THEN Connecting
                          ELSE Reconnecting(i \div 2)]

\* C1: with max_attempts = N >= 1 and no connect succeeding, what the Supervisor
\* has published is at every moment a prefix of Connecting, Reconnecting(1), ...,
\* Reconnecting(N-1), Connecting, Disconnected; at most N connects are attempted;
\* and once the Supervisor has left its loop exactly that sequence was published
\* after exactly N attempts.
C1_FailureRunPublished ==
    (max_attempts >= 1 /\ nConn = 0) =>
        /\ IsPrefix(published, FailureRun(max_attempts))
        /\ nTry <= max_attempts
        /\ supPc \in {"closing", "done"} =>
            /\ published = FailureRun(max_attempts)
            /\ nTry = max_attempts

\* Two attempts were allowed, both failed, and the Supervisor has returned.
C1_Witness ==
    /\ max_attempts = 2
    /\ nConn = 0
    /\ supPc = "done"
    /\ published = <<Connecting, Reconnecting(1), Connecting, Disconnected>>

\* The step is a send() call.
SendCalled == Len(sendRes') = Len(sendRes) + 1

HbRunning(c) == hb[c].pc \notin {"none", "done", "cancelled"}

C5_FirstDelayAfterConnect ==
    (supPc = "sleeping" /\ nConn > 0 /\ waitsSinceOk = 1) => sleepBase = InitialDelay

\* A connect failed, the backoff escalated, the next connect succeeded, the
\* connection ended and the Supervisor sleeps its first delay since.
C5_Witness ==
    /\ supPc = "sleeping"
    /\ nConn > 0
    /\ waitsSinceOk = 1
    /\ \E i, j \in DOMAIN published :
        /\ i < j
        /\ published[i].tag = "Reconnecting"
        /\ published[j].tag = "Connected"

\* The wait of connection c's monitor ends in this step.
WaitEnds(c) == hb[c].pc = "wait" /\ hb'[c].pc # "wait"

\* The monitor stops at its timeout, or is over because its connection ended.
StopsAtTimeout(c) ==
    /\ HbOver(hb'[c])
    /\ now >= hb[c].waitUntil \/ muxPc'[c] = "exited"

\* The monitor of connection c finds its ping answered and goes on to the next tick.
Answered(c) == hb[c].pc = "got" /\ hb'[c].pc = "tick"

TicksFired(c) == (hb[c].nextTick - hb[c].born) \div HeartbeatInterval

PingsDispatched(c) == pingQ[c] + pingsWritten[c]

\* C7 as stated, its first part: no PING frame is written earlier than
\* heartbeat_interval after the connection was established.
C7_NoPingBeforeInterval ==
    [][\A c \in Conns :
          (pingsWritten'[c] > pingsWritten[c] /\ state.tag = "Connected") =>
              now >= state.since + HeartbeatInterval]_vars

\* C7 amended: the first tick is due when the monitor starts and the others one
\* heartbeat_interval apart; every tick that finds the state Connected dispatches
\* exactly one ping request, so the k-th PING frame is not written before
\* (k-1) intervals after the start; a PONG stamped no earlier than ping_sent
\* keeps the monitor running, and no step of the monitor touches the Supervisor
\* or the published state; a wait with no PONG by its deadline ends only by the
\* monitor stopping.
C7_TicksAndPings ==
    [][\A c \in Conns :
          /\ (MuxLive(c) /\ HbRunning(c) /\ hb[c].pc # "spawned") =>
                /\ (hb[c].nextTick - hb[c].born) % HeartbeatInterval = 0
                /\ PingsDispatched(c) =
                      IF hb[c].pc \in {"check", "mark", "ping"}
                      THEN TicksFired(c) - 1 ELSE TicksFired(c)
          /\ pingsWritten'[c] > pingsWritten[c] =>
                now >= hb[c].born + pingsWritten[c] * HeartbeatInterval
          /\ (hb[c].pc = "got" /\ pong[c].val >= hb[c].pingSent /\ muxPc'[c] = muxPc[c]
                  /\ hb'[c] # hb[c]) => hb'[c].pc = "tick"
          /\ (hb'[c] # hb[c] /\ muxPc' = muxPc) => (supPc' = supPc /\ state' = state)
          /\ (hb[c].pc = "wait" /\ ~pong[c].changed /\ now >= hb[c].waitUntil
                  /\ muxPc'[c] = muxPc[c] /\ hb'[c] # hb[c]) => HbOver(hb'[c])]_vars

\* The first PING was written when the connection began and was answered, the
\* second was written one interval later and was not: the monitor stopped at
\* its timeout.
C7_Witness ==
    \E c \in Conns :
        /\ MuxLive(c)
        /\ state.tag = "Connected"
        /\ pingsWritten[c] = 2
        /\ hb[c].pc = "done"
        /\ now = state.since + HeartbeatInterval + HeartbeatTimeout

\* C8: a published Disconnected is the last value published, the Supervisor
\* has left its loop for good when it is there, and state() returns it.
C8_DisconnectedIsFinal ==
    \A i \in DOMAIN published :
        published[i] = Disconnected =>
            /\ i = Len(published)
            /\ supPc \in {"closing", "done"}
            /\ StateSnapshot = Disconnected

\* After a failure, a success and another failure the limit was reached and
\* the Supervisor has returned.
C8_Witness ==
    /\ Terminal
    /\ supPc = "done"
    /\ nConn >= 1
    /\ nTry >= 2
    /\ \E i \in DOMAIN published : published[i].tag = "Reconnecting"

\* C9 as stated: every send() made once the terminal Disconnected is published
\* returns the channel-closed error, and its request is written nowhere.
C9_ClosedOnceTerminal ==
    \A i \in DOMAIN sendRes :
        sendRes[i].ctx = "terminal" =>
            /\ sendRes[i].res = "closed"
            /\ \A j \in DOMAIN wireReq : wireReq[j].req # i

\* The reads of subscriber s never returned Lagged.
NeverLagged(s) == \A i \in DOMAIN rxGot[s] : rxGot[s][i].kind = "msg"

\* C10: what a subscriber that never lagged has received is, in order, the
\* messages broadcast since its subscribe() call, with none left out before the
\* last one it read, and all of them once it has caught up.
C10_ExactlyLaterMessages ==
    \A s \in Subs :
        (rxNext[s] >= 0 /\ NeverLagged(s)) =>
            /\ rxSubAt[s] + Len(rxGot[s]) <= Len(sentLog)
            /\ \A i \in DOMAIN rxGot[s] : rxGot[s][i].v = sentLog[rxSubAt[s] + i]
            /\ rxNext[s] = tail => rxSubAt[s] + Len(rxGot[s]) = Len(sentLog)

\* Two subscribers that joined at different times: the second, joining after
\* a broadcast, has read the two messages broadcast since.
C10_Witness ==
    /\ rxNext[1] >= 0 /\ rxNext[2] >= 0
    /\ rxSubAt[1] < rxSubAt[2]
    /\ NeverLagged(2)
    /\ Len(rxGot[2]) = 2
    /\ Len(rxGot[1]) >= 1

\* Broadcasts the first i reads of a subscriber account for: one for each
\* message returned, the number skipped for each Lagged.
RECURSIVE Accounted(_, _)
Accounted(g, i) ==
    IF i = 0 THEN 0
    ELSE Accounted(g, i - 1) + (IF g[i].kind = "msg" THEN 1 ELSE g[i].v)

\* Messages broadcast that subscriber s has neither read nor been told it lost.
Backlog(s) == tail - rxNext[s]

\* The step is a read by subscriber s.
Reads(s) == Len(rxGot'[s]) = Len(rxGot[s]) + 1

\* C11: a read returns the 'entries skipped' notification exactly when more
\* messages than the capacity were broadcast and not read; the notification
\* counts the oldest unread messages, all those the ring no longer holds, and
\* leaves the subscriber at the oldest retained one; every message a read
\* returns is the one that follows, in publish order, those already returned
\* or reported skipped, so reads after a notification return the retained
\* messages with no gap until the subscriber lags again.
C11_LaggedOnceThenInOrder ==
    /\ [](\A s \in Subs :
            rxNext[s] >= 0 =>
                /\ rxSubAt[s] + Accounted(rxGot[s], Len(rxGot[s])) + Backlog(s)
                        = Len(sentLog)
                /\ \A i \in DOMAIN rxGot[s] :
                      IF rxGot[s][i].kind = "msg"
                      THEN rxGot[s][i].v = sentLog[rxSubAt[s] + Accounted(rxGot[s], i)]
                      ELSE rxGot[s][i].v >= 1)
    /\ [][\A s \in Subs :
            Reads(s) =>
                LET r == rxGot'[s][Len(rxGot'[s])] IN
                    IF Backlog(s) > Capacity
                    THEN /\ r.kind = "lagged"
                         /\ r.v = Backlog(s) - Capacity
                         /\ tail' - rxNext'[s] = Capacity
                    ELSE /\ r.kind = "msg"
                         /\ tail' - rxNext'[s] = Backlog(s) - 1]_vars

\* A subscriber fell behind twice: it was told once that the oldest message
\* was skipped, read a retained message, fell behind again, was told once
\* more and then read every retained message up to the last one broadcast.
C11_Witness ==
    \E s \in Subs :
        /\ rxSubAt[s] = 0
        /\ Backlog(s) = 0
        /\ Len(rxGot[s]) = 5
        /\ rxGot[s][1].kind = "lagged"
        /\ rxGot[s][2].kind = "msg"
        /\ rxGot[s][3].kind = "lagged"
        /\ rxGot[s][4].kind = "msg"
        /\ rxGot[s][5] = [kind |-> "msg", v |-> Len(sentLog)]

\* C12: the broadcast step of the Multiplexer is never held, whatever backlog
\* the subscribers have and also when there is none; a read by one subscriber
\* changes neither what another subscriber has received or will receive nor
\* anything of the Multiplexer; a broadcast changes what no subscriber has
\* received; and a read by a subscriber whose backlog is within the capacity
\* returns the oldest message it has not read, never a notification, wherever
\* the other subscribers are.
C12_SlowSubscriberHarmsNobody ==
    /\ [](\A c \in Conns : muxPc[c] = "bcast" => ENABLED MuxBroadcast(c))
    /\ [][\A s \in Subs :
            Reads(s) =>
                /\ \A r \in Subs \ {s} : rxNext'[r] = rxNext[r] /\ rxGot'[r] = rxGot[r]
                /\ buffer' = buffer /\ tail' = tail /\ sentLog' = sentLog
                /\ muxPc' = muxPc /\ muxPending' = muxPending
                /\ Backlog(s) <= Capacity =>
                      rxGot'[s][Len(rxGot'[s])] =
                          [kind |-> "msg", v |-> sentLog[Len(sentLog) - Backlog(s) + 1]]]_vars
    /\ [][sentLog' # sentLog =>
            /\ rxGot' = rxGot /\ rxNext' = rxNext
            /\ Len(sentLog') = Len(sentLog) + 1]_vars

\* A frame was processed before anybody subscribed; then one subscriber never
\* read and fell behind by more than the capacity, while the other read every
\* message broadcast since it subscribed, more than the capacity of them, with
\* no notification.
C12_Witness ==
    /\ rxNext[1] >= 0 /\ rxNext[2] >= 0
    /\ rxSubAt[1] >= 1
    /\ rxGot[1] = <<>>
    /\ Backlog(1) > Capacity
    /\ NeverLagged(2)
    /\ Backlog(2) = 0
    /\ Len(rxGot[2]) > Capacity
    /\ rxSubAt[2] + Len(rxGot[2]) = Len(sentLog)

\* The caller has observed every change notified so far and waits for the next.
CaughtUp == obs.pc = "wait" /\ obs.seen = StateVersion

\* C13 as stated: once the caller has caught up, what it has read is the
\* sequence of the values published since its handle was created.
C13_ObservesEveryValue ==
    CaughtUp =>
        [i \in 1..Len(obsGot) |-> obsGot[i].v] =
            SubSeq(published, obs.at + 1, Len(published))

\* C13 amended: every value the caller reads is the value that was current
\* when it read, one published after its handle was created; its reads follow
\* the publication order (a value may be read twice, none out of order); and
\* once it has caught up after some publication, the last value it read is the
\* last one published.
C13_ObservesLatestInOrder ==
    /\ \A i \in DOMAIN obsGot :
          /\ obsGot[i].idx > obs.at
          /\ obsGot[i].idx <= Len(published)
          /\ obsGot[i].v = published[obsGot[i].idx]
          /\ \A j \in DOMAIN obsGot : i < j => obsGot[i].idx <= obsGot[j].idx
    /\ (CaughtUp /\ StateVersion > obs.at) =>
          /\ obsGot # <<>>
          /\ obsGot[Len(obsGot)].idx = StateVersion
          /\ obsGot[Len(obsGot)].v = state

\* The caller waited and read twice and has caught up, and more values were
\* published since its handle was created than it has read.
C13_Witness ==
    /\ CaughtUp
    /\ Len(obsGot) = 2
    /\ obsGot[1].idx < obsGot[2].idx
    /\ StateVersion - obs.at > 2

\* The step publishes a state value.
Publishes == state' # state \/ published' # published

\* The step is one of the facade, the Multiplexer or the Heartbeat Monitor.
OtherStep ==
    \/ sendRes' # sendRes \/ snap' # snap \/ obs' # obs \/ rxNext' # rxNext
    \/ hb' # hb \/ pong' # pong
    \/ muxPc' # muxPc \/ sendQ' # sendQ \/ pingQ' # pingQ \/ nMsg' # nMsg
    \/ muxPending' # muxPending \/ streamEnded' # streamEnded

\* C14: the state value changes only in a step of the Supervisor, at one of
\* its three publishing places, and that step publishes exactly one value,
\* which becomes the current one; every send(), state(), subscribe(),
\* state_receiver(), Multiplexer step and Heartbeat Monitor step leaves the
\* published state as it was; the current value is at all times the last one
\* published (Disconnected before any), and it is what state() returns.
C14_OnlySupervisorWrites ==
    /\ [](state = IF published = <<>> THEN Disconnected
                  ELSE published[Len(published)])
    /\ [][Publishes =>
            /\ supPc \in {"start", "connecting", "check"}
            /\ supPc' # supPc
            /\ Len(published') = Len(published) + 1
            /\ state' = published'[Len(published')]
            /\ ~OtherStep]_vars
    /\ [][OtherStep => (state' = state /\ published' = published)]_vars
    /\ [][snap' # snap => snap' = state]_vars

\* On a live connection, after a PING was written and a message broadcast
\* and the monitor was stopped by its timeout, state() has returned Connected:
\* the value the Supervisor published last.
C14_Witness ==
    \E c \in Conns :
        /\ MuxLive(c)
        /\ hb[c].pc = "done" /\ ~hb[c].aborted
        /\ pingsWritten[c] >= 1
        /\ nMsg >= 1
        /\ snap.tag = "Connected"
        /\ snap = published[Len(published)]

\* The explored run has room for one more retry: an attempt is left and the
\* clock can reach the end of the longest sleep.
RoomToRetry == nTry < MaxTries /\ now + MaxDelay <= MaxTime

\* C15: with max_attempts unset the Supervisor never publishes Disconnected and
\* never leaves its loop, and every connect failure and every connection end
\* (the Supervisor at its check) is eventually followed by another connect
\* attempt, whatever the number of failures before.
C15_UnlimitedRetriesForever ==
    /\ [](max_attempts = NoLimit =>
            /\ \A i \in DOMAIN published : published[i] # Disconnected
            /\ supPc \notin {"closing", "done"})
    /\ []((max_attempts = NoLimit /\ supPc = "check" /\ RoomToRetry) =>
            <>(supPc = "connecting"))

\* No limit is set, every connect so far has failed, and the Supervisor is
\* making its attempt number MaxTries.
C15_Witness ==
    /\ max_attempts = NoLimit
    /\ nConn = 0
    /\ nTry = MaxTries
    /\ supPc = "connecting"
    /\ Len(published) = 2 * MaxTries - 1
    /\ published[Len(published) - 1] = Reconnecting(MaxTries - 1)

C17_PublicationsFollowStateMachine ==
    \A i \in DOMAIN published :
        LET v == published[i]
            prev == IF i = 1 THEN NoSnap ELSE published[i - 1] IN
            /\ v.tag = "Connecting" => (i = 1 \/ prev.tag = "Reconnecting")
            /\ v.tag = "Connected" => prev.tag = "Connecting"
            /\ v.tag \in {"Reconnecting", "Disconnected"} =>
                  prev.tag \in {"Connecting", "Connected"}
            /\ v.tag = "Reconnecting" =>
                  (prev.tag = "Connected" <=> v.attempt = 0)
            /\ v.tag = "Disconnected" => i = Len(published)

\* A connection was established and ended, the retry failed and reached the
\* limit: every kind of value was published, each after its predecessor.
C17_Witness ==
    /\ Len(published) = 5
    /\ published[1] = Connecting
    /\ published[2].tag = "Connected"
    /\ published[3] = Reconnecting(0)
    /\ published[4] = Connecting
    /\ published[5] = Disconnected

\* handle_connection of the latest connection has returned for a transport
\* reason and the Supervisor is at its check, the state still Connected.
ConnEnded ==
    /\ supPc = "check"
    /\ state.tag = "Connected"
    /\ nConn > 0
    /\ muxPc[nConn] = "exited"
    /\ muxExit[nConn] \in {"close", "read_error", "write_failed"}

\* The explored run has room for the retry after a connection: an attempt is
\* left and the clock can reach the end of the sleep, the first since a connect.
RoomAfterConn == nTry < MaxConns /\ now + InitialDelay <= MaxTaskTime

\* C18: the return of handle_connection for a transport reason changes no
\* published state and no send() result and leaves the Supervisor at its
\* check; the Supervisor is only ever over after publishing Disconnected at the
\* limit; and after such a return it eventually publishes Disconnected, when
\* the limit is reached (a limit of 0: the attempt counter was reset by the
\* connect), or else Reconnecting(0) and then, the backoff wait over,
\* Connecting.
C18_TransportExitLeadsToRetry ==
    /\ [][\A c \in Conns :
            (MuxLive(c) /\ muxPc'[c] = "exited") =>
                /\ muxExit'[c] \in {"close", "read_error", "write_failed"}
                /\ supPc' = "check"
                /\ state' = state /\ published' = published
                /\ sendRes' = sendRes]_vars
    /\ [](supPc \in {"closing", "done"} =>
            (Terminal /\ max_attempts # NoLimit /\ attempt >= max_attempts))
    /\ []((ConnEnded /\ max_attempts = 0) => <>(state = Disconnected))
    /\ []((ConnEnded /\ max_attempts # 0) => <>(state = Reconnecting(0)))
    /\ []((state = Reconnecting(0) /\ RoomAfterConn) => <>(state = Connecting))

\* A connection ended on the failed write of a request; the Supervisor has
\* published Reconnecting, waited, and is connecting again.
C18_Witness ==
    /\ nConn = 1
    /\ muxExit[1] = "write_failed"
    /\ Len(published) = 4
    /\ published[2].tag = "Connected"
    /\ published[3] = Reconnecting(0)
    /\ state = Connecting
    /\ supPc = "connecting"

\* C19 as stated: a Multiplexer that exits because a write of a request frame or
\* of a PING frame failed returns a connection-terminated error, the same kind
\* of result as for a close frame or a read error.
C19_WriteFailureReturnsError ==
    \A c \in Conns :
        (muxPc[c] = "exited" /\ muxExit[c] = "write_failed") =>
            HandleConnectionResult(muxExit[c])
                \in {"Err(ConnectionClosed)", "Err(Connection)"}

\* The monitor of connection c has stopped by itself (timeout or stale pong)
\* and handle_connection is still running.
Stopped(c) == MuxLive(c) /\ hb[c].pc = "done" /\ ~hb[c].aborted

\* The step by which the monitor of a running connection stops by itself.
StopsAlone(c) ==
    /\ MuxLive(c) /\ HbRunning(c)
    /\ hb'[c].pc = "done" /\ ~hb'[c].aborted

\* What the stop leaves as it was: the Multiplexer, the transport's stream, the
\* Supervisor and the published state.
StopChangesNothing ==
    /\ muxPc' = muxPc /\ muxExit' = muxExit /\ streamEnded' = streamEnded
    /\ supPc' = supPc /\ state' = state /\ published' = published

\* After the stop the Multiplexer still serves what arrives: a queued request
\* is written, an inbound frame is taken.
StillServes(c) ==
    /\ (muxPc[c] = "select" /\ sendQ # <<>>) => ENABLED MuxSendOut(c)
    /\ (muxPc[c] = "select" /\ ~streamEnded) => ENABLED MuxPong(c)

\* C20 as stated: the stop of the Heartbeat Monitor leaves the Multiplexer
\* running and the state Connected, and after it the Multiplexer ends only by a
\* close frame, a read error or a write failure.
C20_StoppedUntilTransportError ==
    /\ [](\A c \in Conns : Stopped(c) =>
            (state.tag = "Connected" /\ supPc = "connected" /\ StillServes(c)))
    /\ [][\A c \in Conns :
            /\ StopsAlone(c) => StopChangesNothing
            /\ (Stopped(c) /\ muxPc'[c] = "exited") =>
                    muxExit'[c] \in {"close", "read_error", "write_failed"}]_vars

\* C20 amended: the stop of the Heartbeat Monitor changes nothing but the
\* monitor; the Multiplexer keeps serving and the state stays Connected until
\* the Multiplexer ends, which after the stop happens by a close frame, a read
\* error, a write failure, or by the else branch once the stream has ended and
\* every manager handle is dropped with its requests drained (the stopped
\* monitor having closed the ping channel).
C20_StopAloneNeverReconnects ==
    /\ [](\A c \in Conns : Stopped(c) =>
            (state.tag = "Connected" /\ supPc = "connected" /\ StillServes(c)))
    /\ [][\A c \in Conns :
            /\ StopsAlone(c) => StopChangesNothing
            /\ (Stopped(c) /\ muxPc'[c] = "exited") =>
                    \/ muxExit'[c] \in {"close", "read_error", "write_failed"}
                    \/ /\ muxExit'[c] = "all_closed"
                       /\ streamEnded /\ ~mgrAlive /\ sendQ = <<>>]_vars

\* The monitor timed out on its first PING, the Multiplexer went on, wrote a
\* request, and left by the else branch after the stream ended and the manager
\* was dropped.
C20_Witness ==
    \E c \in Conns :
        /\ muxExit[c] = "all_closed"
        /\ hb[c].pc = "done"
        /\ pingsWritten[c] = 1
        /\ \E j \in DOMAIN wireReq : wireReq[j].conn = c
        /\ now = HeartbeatTimeout

\* The monitor of connection c takes a step.
HbMoves(c) == hb'[c] # hb[c]

\* The monitor's own step, not the abort that the return of handle_connection
\* performs on it.
HbOwnStep(c) == HbMoves(c) /\ muxPc' = muxPc

\* C21: after its ping the monitor goes on to the next tick only from a
\* notification of the pong signal that came by the deadline of its wait and
\* whose timestamp is not earlier than ping_sent; a notified timestamp earlier
\* than ping_sent stops it, a wait that reaches its deadline unnotified stops
\* it, a ping that cannot be dispatched because handle_connection has returned
\* stops it without queuing anything, and a tick that finds the state other
\* than Connected stops it before any ping.
C21_NextTickOnlyOnFreshPong ==
    [][\A c \in Conns :
          /\ (HbOwnStep(c) /\ hb[c].pc \in {"wait", "got"} /\ hb'[c].pc = "tick") =>
                /\ hb[c].pc = "got"
                /\ pong[c].val >= hb[c].pingSent
          /\ (HbOwnStep(c) /\ hb[c].pc = "wait" /\ hb'[c].pc = "got") =>
                /\ pong[c].changed
                /\ now <= hb[c].waitUntil
          /\ (HbOwnStep(c) /\ hb[c].pc = "got" /\ pong[c].val < hb[c].pingSent) =>
                hb'[c].pc = "done"
          /\ (HbOwnStep(c) /\ hb[c].pc = "wait" /\ ~pong[c].changed) =>
                /\ hb'[c].pc = "done"
                /\ now >= hb[c].waitUntil \/ ~MuxLive(c)
          /\ (HbOwnStep(c) /\ hb[c].pc = "ping") =>
                IF MuxLive(c)
                THEN hb'[c].pc = "wait" /\ pingQ'[c] = pingQ[c] + 1
                     /\ hb'[c].pingSent = now
                     /\ hb'[c].waitUntil = now + HeartbeatTimeout
                ELSE hb'[c].pc = "done" /\ pingQ' = pingQ
          /\ (HbOwnStep(c) /\ hb[c].pc = "check") =>
                /\ pingQ' = pingQ
                /\ hb'[c].pc = IF state.tag = "Connected" THEN "mark" ELSE "done"]_vars

\* A PONG came between the mark and the ping, the ping was stamped later than
\* it, and the monitor, notified at once, found it stale and stopped while its
\* connection was up.
C21_Witness ==
    \E c \in Conns :
        /\ MuxLive(c)
        /\ hb[c].pc = "done"
        /\ ~hb[c].aborted
        /\ pong[c].cls = "mid"
        /\ pingQ[c] + pingsWritten[c] = 1
        /\ now = MaxTaskTime

\* The index of the last Connected published, 0 when there is none.
RECURSIVE LastConnected(_)
LastConnected(n) ==
    IF n = 0 THEN 0
    ELSE IF published[n].tag = "Connected" THEN n
    ELSE LastConnected(n - 1)

\* Connect attempts that have failed since the last one that succeeded: every
\* attempt publishes Connecting first, and the one in progress has no outcome yet.
FailStreak ==
    Cardinality({i \in DOMAIN published :
                    i > LastConnected(Len(published)) /\ published[i] = Connecting})
        - (IF supPc = "connecting" THEN 1 ELSE 0)

\* The step publishes v.
Published(v) == published' = Append(published, v)

\* C22: the attempt counter is the number of connect attempts that failed
\* since the last success; a failure raises it by one, nothing but a
\* successful connect lowers it, which sets it to zero in the step that
\* publishes Connected; every Reconnecting published carries its value, which
\* is 0 when the value published before it was Connected.
C22_AttemptCountsFailureStreak ==
    /\ [](attempt = FailStreak)
    /\ [](\A i \in DOMAIN published :
            (i > 1 /\ published[i].tag = "Reconnecting"
                   /\ published[i - 1].tag = "Connected") => published[i].attempt = 0)
    /\ [][/\ (supPc = "connecting" /\ supPc' = "check") => attempt' = attempt + 1
          /\ (Len(published') > Len(published)
                  /\ published'[Len(published')].tag = "Connected") => attempt' = 0
          /\ attempt' < attempt =>
                (supPc = "connecting" /\ published'[Len(published')].tag = "Connected")
          /\ \A a \in 0..MaxTries :
                Published(Reconnecting(a)) => (a = attempt /\ attempt' = attempt)]_vars

\* Two connects failed, the third succeeded, its connection ended, and the
\* Supervisor published Reconnecting with a count of 0.
C22_Witness ==
    /\ Len(published) = 7
    /\ published[4] = Reconnecting(2)
    /\ published[6].tag = "Connected"
    /\ published[7] = Reconnecting(0)
    /\ attempt = 0

\* Reconnecting values published since the last Connected.
RetriesAnnounced ==
    Cardinality({i \in DOMAIN published :
                    i > LastConnected(Len(published))
                    /\ published[i].tag = "Reconnecting"})

RECURSIVE Pow(_, _)
Pow(b, e) == IF e = 0 THEN 1 ELSE b * Pow(b, e - 1)

\* The k-th delay of a streak, jitter aside.
StreakDelay(k) == Min(InitialDelay * Pow(Multiplier, k - 1), MaxDelay)

\* C24: the k-th delay the Supervisor waits since the last successful connect
\* is initial_delay * multiplier^(k-1) capped at max_delay, jitter aside; the
\* sleep lasts that long; within a streak a delay is never shorter than the one
\* before it, and none exceeds max_delay.
C24_DelaysGrowToTheCap ==
    /\ [](waitsSinceOk >= 1 =>
            /\ sleepBase = StreakDelay(waitsSinceOk)
            /\ sleepBase <= MaxDelay)
    /\ [][waitsSinceOk' = waitsSinceOk + 1 =>
            /\ sleepUntil' = now + sleepBase'
            /\ waitsSinceOk >= 1 => sleepBase' >= sleepBase]_vars

\* The third wait of a streak: twice the second delay would pass max_delay, and
\* the Supervisor sleeps max_delay.
C24_Witness ==
    /\ supPc = "sleeping"
    /\ waitsSinceOk = 3
    /\ nConn = 0
    /\ sleepBase = MaxDelay
    /\ InitialDelay * Multiplier * Multiplier > MaxDelay

\* C25: the request frames written carry strictly increasing request numbers,
\* across connections: no accepted request is written twice, on the same
\* connection or after a reconnect, and the frames follow the order in which
\* send() accepted the requests; only accepted requests are written.
C25_WrittenOnceInOrder ==
    /\ \A j, k \in DOMAIN wireReq : j < k => wireReq[j].req < wireReq[k].req
    /\ \A j \in DOMAIN wireReq :
          /\ wireReq[j].req \in DOMAIN sendRes
          /\ sendRes[wireReq[j].req].res = "ok"
    /\ \A j, k \in DOMAIN wireReq : j < k => wireReq[j].conn <= wireReq[k].conn

\* Three requests were accepted, the first while the first connection was up,
\* the others later; the first was written there, the second and the third,
\* in that order, after the reconnect.
C25_Witness ==
    /\ Len(wireReq) = 3
    /\ wireReq[1] = [conn |-> 1, req |-> 1]
    /\ wireReq[2] = [conn |-> 2, req |-> 2]
    /\ wireReq[3] = [conn |-> 2, req |-> 3]
    /\ sendRes[1].ctx = "live"
    /\ sendRes[2].ctx = "live"
    /\ sendRes[3].ctx = "between"

\* The step takes an inbound frame; the frame it takes is of the given kind.
FrameStep == inLog' # inLog

FrameTaken(kind) ==
    /\ Len(inLog'.frames) = Len(inLog.frames) + 1
    /\ inLog'.frames[Len(inLog'.frames)] = kind

\* What the decoder and the fan-out hold.
Decoded == <<muxPending, nMsg, sentLog, buffer, tail>>

\* C26: a text frame "PONG" takes the pong arm whenever the Multiplexer takes
\* a frame; it puts the current time on the pong signal as a value not yet
\* seen (while the monitor's receiver exists), and gives nothing to the
\* decoder or the broadcast channel; a frame of any other kind leaves the pong
\* signal as it was, and nothing but a PONG frame makes the signal unseen or,
\* between its creation and the end of the monitor, changes its value.
C26_OnlyPongStampsSignal ==
    /\ [](\A c \in Conns :
            (muxPc[c] = "select" /\ MoreFrames) => ENABLED MuxPong(c))
    /\ [][\A c \in Conns :
            /\ (FrameTaken("pong") /\ MuxLive(c)) =>
                  /\ HbHoldsRx(c) => (pong'[c].val = now /\ pong'[c].changed)
                  /\ UNCHANGED Decoded
                  /\ muxPc' = muxPc
            /\ (FrameStep /\ ~FrameTaken("pong")) => pong' = pong
            /\ (pong'[c].changed /\ ~pong[c].changed) => FrameTaken("pong")
            /\ pong'[c].val # pong[c].val =>
                  \/ FrameTaken("pong")
                  \/ muxPc[c] = "none"
                  \/ HbOver(hb'[c])]_vars

\* A data frame was decoded and its message broadcast, then a PONG came one
\* clock unit after the connection began: the signal holds that time, unseen,
\* and the broadcast channel got nothing more.
C26_Witness ==
    \E c \in Conns :
        /\ inLog.frames = <<"data", "pong">>
        /\ sentLog = <<1>>
        /\ muxPc[c] = "select"
        /\ pong[c].changed
        /\ pong[c].val = MaxTaskTime
        /\ state = Connected(0)

\* Everything but the history of frames.
AllButFrames ==
    <<envVars, obsVars, bridgeVars, now, supVars, sendVars, muxVars, hbVars,
      muxPending, nMsg, buffer, tail, rxNext, rxSubAt, rxGot, sentLog>>

\* The last inbound frame taken was undecodable or of an ignored kind.
LastFrameDropped ==
    /\ inLog.frames # <<>>
    /\ inLog.frames[Len(inLog.frames)] \in {"undecodable", "ignored"}

\* C27: a text frame that fails to decode, and likewise a binary or other
\* ignored frame, changes nothing: no message is broadcast, the published state,
\* the Supervisor, the Heartbeat Monitor and the pong signal stay as they were,
\* and the Multiplexer is back at its select, where it takes the next frame,
\* whatever its kind.
C27_DroppedFrameChangesNothing ==
    /\ [][(FrameTaken("undecodable") \/ FrameTaken("ignored")) =>
            UNCHANGED AllButFrames]_vars
    /\ [](\A c \in Conns :
            (MuxLive(c) /\ LastFrameDropped /\ MoreFrames) =>
                /\ muxPc[c] = "select"
                /\ state.tag = "Connected"
                /\ ENABLED MuxData(c, 1)
                /\ ENABLED MuxUndecodable(c)
                /\ ENABLED MuxIgnored(c)
                /\ ENABLED MuxClose(c, FALSE))

\* An undecodable text frame and a binary frame came first; the data frame
\* after them was decoded and its message broadcast, the monitor still running.
C27_Witness ==
    \E c \in Conns :
        /\ inLog.frames = <<"undecodable", "ignored", "data">>
        /\ sentLog = <<1>>
        /\ muxPc[c] = "select"
        /\ state.tag = "Connected"
        /\ HbRunning(c)

\* Request i waits in the outbound queue; request i was written as a frame.
Queued(i) == \E j \in DOMAIN sendQ : sendQ[j] = i

Written(i) == \E j \in DOMAIN wireReq : wireReq[j].req = i

\* C28 as stated, its safety part: no accepted request is lost. While the
\* Supervisor keeps establishing connections, every request for which send()
\* returned success is in the outbound queue, waiting for a connection, or
\* has been written to the transport.
C28_AcceptedNeverLost ==
    \A i \in DOMAIN sendRes :
        (sendRes[i].res = "ok" /\ supPc \notin {"closing", "done"}) =>
            (Queued(i) \/ Written(i))

\* The step reads an inbound frame or writes an outbound one.
FrameReadOrWritten ==
    \/ wireReq' # wireReq \/ pingsWritten' # pingsWritten
    \/ nMsg' # nMsg \/ muxPending' # muxPending
    \/ \E c \in Conns : pong'[c].changed /\ ~pong[c].changed

LimitReached == max_attempts # NoLimit /\ FailStreak >= max_attempts

\* C30: the Supervisor leaves its loop only from the check, and there exactly
\* when the connect attempts failed since the last success are at least
\* max_attempts, and having left it it ends; neither failures before the last
\* success nor ended connections count: with a limit of 1 or more the check
\* after a connection's end always goes on to the backoff, and with a limit
\* of 0 the first check ends the Supervisor, after a failed connect as after a
\* connection that ended, so that no second attempt is made.
C30_LimitCountsFailureStreak ==
    /\ [][(supPc = "check" /\ supPc' # "check") =>
            /\ supPc' \in {"closing", "backoff"}
            /\ supPc' = "closing" <=> LimitReached]_vars
    /\ [][supPc' \in {"closing", "done"} => supPc \in {"check", "closing", "done"}]_vars
    /\ [][(max_attempts >= 1 /\ supPc = "check" /\ supPc' # "check"
              /\ published[Len(published)].tag = "Connected") => supPc' = "backoff"]_vars
    /\ [](max_attempts = 0 => nTry <= 1)
    /\ []((supPc = "check" /\ LimitReached) => <>(supPc = "done"))
    /\ []((supPc = "check" /\ ~LimitReached) => <>(supPc = "backoff"))

\* The limit is 2. A connect failed, the next succeeded, its connection ended,
\* and the connect after it failed: two failures in all and one drop, a streak
\* of one, and the Supervisor goes on.
C30_Witness ==
    /\ max_attempts = 2
    /\ published = <<Connecting, Reconnecting(1), Connecting, Connected(InitialDelay),
                     Reconnecting(0), Connecting, Reconnecting(1)>>
    /\ supPc = "backoff"

\* The PONG frame j read on connection c answers the ping request k of c's
\* monitor: it was read after the mark of that ping's tick and before the wait
\* for it ended, and its timestamp is not earlier than the ping_sent.
AnswersPing(c, j, k) ==
    LET p == hbLog.pongs[c][j]
    IN  /\ p.ts >= hbLog.pings[c][k]
        /\ \/ p.ping = k /\ p.cls = "post"
           \/ p.ping = k - 1 /\ p.cls = "mid"

\* The PONG frames read on c that answer some ping request, and the ping
\* requests that some PONG frame answers.
QualifyingPongs(c) ==
    {j \in DOMAIN hbLog.pongs[c] : \E k \in DOMAIN hbLog.pings[c] : AnswersPing(c, j, k)}

AnsweredPings(c) ==
    {k \in DOMAIN hbLog.pings[c] : \E j \in DOMAIN hbLog.pongs[c] : AnswersPing(c, j, k)}

\* C31: on every connection at most one ping is outstanding: every ping request
\* the monitor has dispatched, but the latest, was answered by a PONG frame with
\* a timestamp not earlier than its ping_sent; the PING frames written are ping
\* requests the monitor dispatched, and they never exceed the qualifying PONG
\* frames read by more than one.
C31_OnePingOutstanding ==
    \A c \in Conns :
        /\ \A k \in DOMAIN hbLog.pings[c] : k < Len(hbLog.pings[c]) => k \in AnsweredPings(c)
        /\ Len(hbLog.pings[c]) <= Cardinality(AnsweredPings(c)) + 1
        /\ pingsWritten[c] <= Len(hbLog.pings[c])
        /\ MuxLive(c) => PingsDispatched(c) = Len(hbLog.pings[c])
        /\ pingsWritten[c] <= Cardinality(QualifyingPongs(c)) + 1

\* Three PING frames were written on a connection and exactly two PONG frames
\* were read on it, each answering one of the first two.
C31_Witness ==
    \E c \in Conns :
        /\ pingsWritten[c] = 3
        /\ Len(hbLog.pongs[c]) = 2
        /\ AnsweredPings(c) = {1, 2}
        /\ Cardinality(QualifyingPongs(c)) = 2

\* The last PONG frame read on connection c.
LastPong(c) == hbLog.pongs[c][Len(hbLog.pongs[c])]

\* The monitor of a connection whose handle_connection has returned takes a step.
LateStep(c) == HbOwnStep(c) /\ muxPc[c] = "exited"

\* C32: ping requests and pong timestamps are private to one connection. The
\* PING frames queued or written on a connection are ping requests its own
\* monitor dispatched; a notification or a satisfied wait of a connection's
\* monitor comes from a PONG frame read on that connection, whose timestamp
\* is the one the monitor compares; and a monitor that outlives its
\* connection queues no ping request anywhere and touches no other
\* connection's pong signal.
C32_PingsAndPongsPrivate ==
    [][/\ \A d \in Conns :
            /\ pingQ'[d] + pingsWritten'[d] <= Len(hbLog'.pings[d])
            /\ (pong'[d].changed \/ hb'[d].pc = "got") =>
                  /\ hbLog'.pongs[d] # <<>>
                  /\ pong'[d].val = LastPong(d)'.ts
            /\ Answered(d) =>
                  \E j \in DOMAIN hbLog.pongs[d] : AnswersPing(d, j, Len(hbLog.pings[d]))
       /\ \A c \in Conns :
            LateStep(c) =>
                /\ pingQ' = pingQ
                /\ pingsWritten' = pingsWritten
                /\ \A d \in Conns \ {c} : pong'[d] = pong[d] /\ hb'[d] = hb[d]]_vars

\* A PONG frame was read on the first connection, whose monitor was aborted in
\* the middle of a tick and has not ended; the second connection has written
\* its PING frame, no PONG frame was read on it, and its monitor still waits.
C32_Witness ==
    \E c, d \in Conns :
        /\ c < d
        /\ hb[c].aborted /\ ~HbOver(hb[c])
        /\ hbLog.pongs[c] # <<>>
        /\ MuxLive(d)
        /\ pingsWritten[d] = 1
        /\ hbLog.pongs[d] = <<>>
        /\ hb[d].pc = "wait" /\ ~pong[d].changed

\* The state is one of the three the running Supervisor publishes.
InLoopState(s) == s.tag \in {"Connecting", "Connected", "Reconnecting"}

\* A state() call returns in this step (a call that returns what the last one
\* returned leaves no trace).
StateReturns == snap' # snap

\* C33 as stated: state() returns Disconnected exactly before the Supervisor's
\* first publication and after the Supervisor has terminated; while the
\* Supervisor runs after its first publication state() returns Connecting,
\* Connected or Reconnecting.
C33_DisconnectedOnlyBeforeStartAndAfterEnd ==
    mgrAlive =>
        /\ StateSnapshot = Disconnected <=> (published = <<>> \/ supPc = "done")
        /\ (published # <<>> /\ supPc # "done") => InLoopState(StateSnapshot)

\* What a state() call would return, against what the Supervisor has done:
\* Disconnected exactly before its first publication and from its publication
\* of the terminal Disconnected on, which it makes before it leaves its loop
\* and returns; otherwise the value it published last.
SnapshotFollowsSupervisor ==
    mgrAlive =>
        /\ StateSnapshot = Disconnected <=> (published = <<>> \/ Terminal)
        /\ Terminal <=> supPc \in {"closing", "done"}
        /\ (published # <<>> /\ ~Terminal) =>
              /\ InLoopState(StateSnapshot)
              /\ StateSnapshot = published[Len(published)]

\* C33 amended: state() returns what the state channel holds, which is
\* Disconnected exactly before the Supervisor's first publication and from its
\* publication of the terminal Disconnected on, which the Supervisor makes
\* before it leaves its loop and returns; while the Supervisor is in its loop
\* after its first publication state() returns Connecting, Connected or
\* Reconnecting, the value published last.
C33_DisconnectedOnlyBeforeStartAndOnceTerminal ==
    [][/\ StateReturns => (mgrAlive /\ snap' = state)
       /\ SnapshotFollowsSupervisor
       /\ SnapshotFollowsSupervisor']_vars

\* A state() call returned Disconnected after a connection had been up, while
\* the Supervisor has published its terminal Disconnected and not yet returned.
C33_Witness ==
    /\ snap = Disconnected
    /\ supPc = "closing"
    /\ nConn > 0
    /\ mgrAlive
====
